---------------------------- MODULE Spec2Model ----------------------------
(***************************************************************************)
(* Execution-trace validation and integrity engine of the DES hooks:       *)
(*   PhaseEventParser          src/des/domain/phase_event.py               *)
(*   StepCompletionValidator   src/des/domain/step_completion_validator.py *)
(*   LogIntegrityValidator     src/des/domain/log_integrity_validator.py   *)
(*   YamlExecutionLogReader    src/des/adapters/driven/hooks/              *)
(*   SubagentStopService       src/des/application/subagent_stop_service.py*)
(*                                                                         *)
(* Representation.                                                         *)
(*  - A string that the code inspects by prefix (an outcome, a skip        *)
(*    prefix) is a tuple of chunks; "startswith" is a prefix test on the   *)
(*    tuples.  Other strings are TLA+ strings.                             *)
(*  - A timestamp string is a record [k, v]: k is what                     *)
(*    datetime.fromisoformat makes of it ("aware": parses with an offset,  *)
(*    "naive": parses without one, "bad": raises ValueError/TypeError),    *)
(*    v the instant in microseconds relative to an arbitrary origin.       *)
(*  - A raw trace entry is a flat record: fmt says whether the YAML value  *)
(*    is a str ("pipe"), a dict ("dict") or anything else ("other"); nf is *)
(*    the number of "|"-separated fields of a str, keys the keys of a      *)
(*    dict; sid, p, s, d, t, tu, tk are the field values (meaningful only  *)
(*    where nf / keys say the field exists).  The timestamp text is        *)
(*    assumed not to occur inside any other field of an entry.             *)
(***************************************************************************)
EXTENDS Integers, Sequences, FiniteSets, TLC

VARIABLES
    schema,        \* the TDDSchema loaded for the process (never mutated)
    events,        \* list of PhaseEvent handed to StepCompletionValidator
    completion,    \* CompletionResult of the last StepCompletionValidator.validate
    cv_pc,         \* "idle" | "done": validate was applied to `events`
    raw_events,    \* execution-log.yaml: the persisted `events` list
    audit_log,     \* AuditEvents passed to audit_writer.log_event by the last hook run
    last,          \* record of the last SubagentStopService.validate invocation
    prev_blocked,  \* the invocation before `last` returned block
    integrity,     \* record of the last _check_and_correct_integrity run
    session        \* .nwave/des: deliver session, DES task signal files, agents

vars == <<schema, events, completion, cv_pc, raw_events, audit_log, last,
          prev_blocked, integrity, session>>

-----------------------------------------------------------------------------
(* Bounds of the model                                                     *)

MaxEvents == 3      \* longest event list handed to the completion validator
MaxTrace == 3       \* longest persisted trace

-----------------------------------------------------------------------------
(* Generic helpers                                                         *)

Range(s) == {s[i] : i \in DOMAIN s}

\* str.startswith on chunked strings
StartsWith(s, prefix) ==
    /\ Len(prefix) <= Len(s)
    /\ SubSeq(s, 1, Len(prefix)) = prefix

\* any(outcome.startswith(prefix) for prefix in prefixes)
AnyPrefix(outcome, prefixes) ==
    \E i \in DOMAIN prefixes : StartsWith(outcome, prefixes[i])

RECURSIVE Concat(_)
Concat(ss) == IF ss = <<>> THEN <<>> ELSE Head(ss) \o Concat(Tail(ss))

-----------------------------------------------------------------------------
(* TDDSchema: the externally loaded phase cycle                            *)

TDDSchema(tdd_phases, valid_statuses, valid_skip_prefixes, blocking_skip_prefixes, terminal_phases) ==
    [tdd_phases |-> tdd_phases, valid_statuses |-> valid_statuses,
     valid_skip_prefixes |-> valid_skip_prefixes,
     blocking_skip_prefixes |-> blocking_skip_prefixes,
     terminal_phases |-> terminal_phases]

\* The four views of the loaded schema
TddPhases == schema.tdd_phases
ValidStatuses == schema.valid_statuses
ValidSkipPrefixes == schema.valid_skip_prefixes
BlockingSkipPrefixes == schema.blocking_skip_prefixes
TerminalPhases == schema.terminal_phases

PASS == <<"PASS">>
FAIL == <<"FAIL">>

-----------------------------------------------------------------------------
(* PhaseEvent and PhaseEventParser                                         *)

\* turns_used / tokens_used: None, or a value that is an int or is not
NoStat == [some |-> FALSE, int |-> FALSE, v |-> 0]
SomeStat(n) == [some |-> TRUE, int |-> TRUE, v |-> n]

PhaseEvent(sid, p, s, d, t, tu, tk) ==
    [step_id |-> sid, phase_name |-> p, status |-> s, outcome |-> d,
     timestamp |-> t, turns_used |-> tu, tokens_used |-> tk]

MINIMUM_FIELDS == 5
STATS_FIELDS == 7
STRUCTURED_REQUIRED_KEYS == {"sid", "p", "s", "d", "t"}

\* A raw stats field: int is TRUE when int(text) succeeds
RawStat(isint, n) == [int |-> isint, v |-> n]
NoRawStat == RawStat(FALSE, 0)

\* parse that drops an entry whose stats fields are not both integers
parse_drops_entry_on_bad_stats(entry) ==
    IF entry.nf < MINIMUM_FIELDS THEN <<>>
    ELSE IF entry.nf >= STATS_FIELDS /\ ~(entry.tu.int /\ entry.tk.int)
    THEN <<>>
    ELSE << PhaseEvent(entry.sid, entry.p, entry.s, entry.d, entry.t,
                       IF entry.nf >= STATS_FIELDS
                       THEN SomeStat(entry.tu.v) ELSE NoStat,
                       IF entry.nf >= STATS_FIELDS
                       THEN SomeStat(entry.tk.v) ELSE NoStat) >>

\* PhaseEventParser.parse: the result is <<>> (None) or <<event>>
parse(entry) ==
    IF entry.nf < MINIMUM_FIELDS THEN <<>>
    ELSE LET bothInt == entry.nf >= STATS_FIELDS /\ entry.tu.int /\ entry.tk.int
             \* int(parts[5]) is assigned before int(parts[6]) can raise
             turns == IF entry.nf >= STATS_FIELDS /\ entry.tu.int
                      THEN SomeStat(entry.tu.v) ELSE NoStat
             tokens == IF bothInt THEN SomeStat(entry.tk.v) ELSE NoStat
         IN << PhaseEvent(entry.sid, entry.p, entry.s, entry.d, entry.t,
                          turns, tokens) >>

\* parse_structured without the STRUCTURED_REQUIRED_KEYS test
parse_structured_any_keys(entry) ==
    << PhaseEvent(entry.sid, entry.p, entry.s, entry.d, entry.t,
                  IF "tu" \in entry.keys
                  THEN [some |-> TRUE, int |-> entry.tu.int, v |-> entry.tu.v]
                  ELSE NoStat,
                  IF "tk" \in entry.keys
                  THEN [some |-> TRUE, int |-> entry.tk.int, v |-> entry.tk.v]
                  ELSE NoStat) >>

\* PhaseEventParser.parse_structured
parse_structured(entry) ==
    IF ~(STRUCTURED_REQUIRED_KEYS \subseteq entry.keys) THEN <<>>
    ELSE << PhaseEvent(entry.sid, entry.p, entry.s, entry.d, entry.t,
                       \* event_dict.get("tu"): the value as it is
                       IF "tu" \in entry.keys
                       THEN [some |-> TRUE, int |-> entry.tu.int, v |-> entry.tu.v]
                       ELSE NoStat,
                       IF "tk" \in entry.keys
                       THEN [some |-> TRUE, int |-> entry.tk.int, v |-> entry.tk.v]
                       ELSE NoStat) >>

\* PhaseEventParser.parse_auto
parse_auto(entry) ==
    IF entry.fmt = "pipe" THEN parse(entry)
    ELSE IF entry.fmt = "dict" THEN parse_structured(entry)
    ELSE <<>>

RECURSIVE parse_all(_)

\* parse_all that gives up at the first entry that does not parse
parse_all_stops_at_corrupt(entries) ==
    SelectSeq([i \in DOMAIN entries |->
                  IF \A j \in 1..i : parse_auto(entries[j]) # <<>>
                  THEN parse_auto(entries[i]) ELSE <<>>],
              LAMBDA ev : ev # <<>>)

\* PhaseEventParser.parse_all
parse_all(entries) ==
    IF entries = <<>> THEN <<>>
    ELSE parse_auto(Head(entries)) \o parse_all(Tail(entries))

\* PhaseEventParser.parse_many
RECURSIVE parse_many(_, _)
parse_many(entries, step_id) ==
    IF entries = <<>> THEN <<>>
    ELSE LET ev == parse_auto(Head(entries))
         IN (IF ev # <<>> /\ ev[1].step_id = step_id THEN ev ELSE <<>>)
            \o parse_many(Tail(entries), step_id)

-----------------------------------------------------------------------------
(* StepCompletionValidator                                                 *)

Msg(kind, phase, detail) == [kind |-> kind, phase |-> phase, detail |-> detail]

CompletionResult(valid, missing, incomplete, skips, errors, recovery, etype) ==
    [is_valid |-> valid, missing_phases |-> missing,
     incomplete_phases |-> incomplete, invalid_skips |-> skips,
     error_messages |-> errors, recovery_suggestions |-> recovery,
     error_type |-> etype]

\* No CompletionResult: validate was not called
NoCompletion == CompletionResult(FALSE, <<>>, <<>>, <<>>, <<>>, <<>>, "NOT_RUN")

\* What one phase of the loop appends to the four lists
Contribution(missing, incomplete, skips, errors) ==
    [missing |-> missing, incomplete |-> incomplete, skips |-> skips,
     errors |-> errors]

\* phase_map with `if event.phase_name not in phase_map`: the first one wins
phase_map_first_wins(evs) ==
    [p \in {evs[i].phase_name : i \in DOMAIN evs} |->
        evs[CHOOSE i \in DOMAIN evs :
                /\ evs[i].phase_name = p
                /\ \A j \in DOMAIN evs : evs[j].phase_name = p => i <= j]]

\* phase_map[event.phase_name] = event, for event in events: last one wins
phase_map(evs) ==
    [p \in {evs[i].phase_name : i \in DOMAIN evs} |->
        evs[CHOOSE i \in DOMAIN evs :
                /\ evs[i].phase_name = p
                /\ \A j \in DOMAIN evs : evs[j].phase_name = p => j <= i]]

\* _validate_executed_phase without the terminal_phases branch
_validate_executed_phase_any_outcome(phase, outcome) ==
    IF outcome \notin {PASS, FAIL}
    THEN Contribution(<<>>, <<phase>>, <<>>,
                      <<Msg("InvalidOutcome", phase, outcome)>>)
    ELSE Contribution(<<>>, <<>>, <<>>, <<>>)

\* StepCompletionValidator._validate_executed_phase
_validate_executed_phase(phase, outcome) ==
    IF outcome \notin {PASS, FAIL}
    THEN Contribution(<<>>, <<phase>>, <<>>,
                      <<Msg("InvalidOutcome", phase, outcome)>>)
    ELSE IF phase \in Range(TerminalPhases) /\ outcome # PASS
    THEN Contribution(<<>>, <<phase>>, <<>>,
                      <<Msg("TerminalMustPass", phase, outcome)>>)
    ELSE Contribution(<<>>, <<>>, <<>>, <<>>)

\* _validate_skipped_phase that accepts every reason with a valid prefix
_validate_skipped_phase_valid_prefix_suffices(phase, outcome) ==
    IF ~AnyPrefix(outcome, ValidSkipPrefixes)
    THEN Contribution(<<>>, <<>>, <<phase>>,
                      <<Msg("InvalidSkipReason", phase, outcome)>>)
    ELSE Contribution(<<>>, <<>>, <<>>, <<>>)

\* StepCompletionValidator._validate_skipped_phase
_validate_skipped_phase(phase, outcome) ==
    LET valid_prefix_found == AnyPrefix(outcome, ValidSkipPrefixes)
        blocking_prefix_found == AnyPrefix(outcome, BlockingSkipPrefixes)
        rule4 == IF ~valid_prefix_found
                 THEN Contribution(<<>>, <<>>, <<phase>>,
                                   <<Msg("InvalidSkipReason", phase, outcome)>>)
                 ELSE Contribution(<<>>, <<>>, <<>>, <<>>)
        rule5 == IF blocking_prefix_found
                 THEN Contribution(<<>>, <<>>, <<phase>>,
                                   <<Msg("BlockingSkip", phase, outcome)>>)
                 ELSE Contribution(<<>>, <<>>, <<>>, <<>>)
    IN Contribution(<<>>, <<>>, rule4.skips \o rule5.skips,
                    rule4.errors \o rule5.errors)

\* StepCompletionValidator._validate_phase_event
_validate_phase_event(phase, event) ==
    IF event.status = "EXECUTED"
    THEN _validate_executed_phase(phase, event.outcome)
    ELSE IF event.status = "SKIPPED"
    THEN _validate_skipped_phase(phase, event.outcome)
    ELSE IF event.status \notin Range(ValidStatuses)
    THEN Contribution(<<>>, <<>>, <<>>,
                      <<Msg("InvalidStatus", phase, <<event.status>>)>>)
    ELSE Contribution(<<>>, <<>>, <<>>, <<>>)

\* StepCompletionValidator._classify_error_type
_classify_error_type(missing, incomplete, skips) ==
    LET phases_are_missing == missing # <<>>
        phases_are_incomplete == incomplete # <<>>
        skips_are_invalid == skips # <<>>
    IN IF phases_are_missing /\ ~phases_are_incomplete /\ ~skips_are_invalid
       THEN "ABANDONED_PHASE"
       ELSE IF phases_are_incomplete /\ ~phases_are_missing /\ ~skips_are_invalid
       THEN "INCOMPLETE_PHASE"
       ELSE IF skips_are_invalid /\ ~phases_are_missing /\ ~phases_are_incomplete
       THEN "INVALID_SKIP"
       ELSE "MULTIPLE_ERRORS"

\* The loop body with a phase that is logged but not finished counted as
\* missing
PhaseStep_unfinished_missing(phase, pmap) ==
    IF phase \notin DOMAIN pmap
       \/ pmap[phase].status \in {"IN_PROGRESS", "NOT_EXECUTED"}
    THEN Contribution(<<phase>>, <<>>, <<>>, <<>>)
    ELSE _validate_phase_event(phase, pmap[phase])

\* The body of the `for phase in self._schema.tdd_phases` loop
PhaseStep(phase, pmap) ==
    IF phase \notin DOMAIN pmap
    THEN Contribution(<<phase>>, <<>>, <<>>, <<>>)
    ELSE _validate_phase_event(phase, pmap[phase])

\* The `for phase in self._schema.tdd_phases` loop: what each phase appends
PhaseLoop(evs) ==
    [i \in DOMAIN TddPhases |-> PhaseStep(TddPhases[i], phase_map(evs))]

\* The four lists after the loop
Lists(per) ==
    Contribution(Concat([i \in DOMAIN per |-> per[i].missing]),
                 Concat([i \in DOMAIN per |-> per[i].incomplete]),
                 Concat([i \in DOMAIN per |-> per[i].skips]),
                 Concat([i \in DOMAIN per |-> per[i].errors]))

\* error_messages once the missing phases are reported
ErrorMessages(l) ==
    l.errors \o
    (IF l.missing # <<>>
     THEN <<Msg("MissingPhases", "", l.missing)>> ELSE <<>>)

\* recovery_suggestions
RecoverySuggestions(l, error_messages) ==
    (IF l.missing # <<>>
     THEN << Msg("ResumeMissing", "", l.missing), Msg("Format", "", <<>>) >>
     ELSE <<>>) \o
    (IF l.incomplete # <<>> \/ l.skips # <<>> \/ error_messages # <<>>
     THEN << Msg("FixInvalidEntries", "", <<>>),
             Msg("EnsureExecutedOutcome", "", <<>>),
             Msg("EnsureSkipPrefix", "", <<>>) >>
     ELSE <<>>)

\* The CompletionResult built from the lists
ResultOf(l, error_messages) ==
    LET validation_failed ==
            l.missing # <<>> \/ l.incomplete # <<>>
            \/ l.skips # <<>> \/ error_messages # <<>>
    IN IF ~validation_failed
       THEN CompletionResult(TRUE, <<>>, <<>>, <<>>, <<>>, <<>>, "None")
       ELSE CompletionResult(FALSE, l.missing, l.incomplete, l.skips,
                error_messages, RecoverySuggestions(l, error_messages),
                _classify_error_type(l.missing, l.incomplete, l.skips))

\* The result for a non-empty event list, from the lists after the loop
ValidateLists(l) == ResultOf(l, ErrorMessages(l))

\* validate without the zero-events rule: the phase loop runs on no events
validate_no_silent_rule(evs) == ValidateLists(Lists(PhaseLoop(evs)))

\* StepCompletionValidator.validate
validate(evs) ==
    IF evs = <<>>
    THEN CompletionResult(FALSE, TddPhases, <<>>, <<>>,
            << Msg("SilentCompletion", "", <<>>),
               Msg("MissingPhases", "", TddPhases) >>,
            << Msg("CheckTranscript", "", <<>>),
               Msg("VerifyContext", "", <<>>),
               Msg("ResumeMissing", "", TddPhases) >>,
            "SILENT_COMPLETION")
    ELSE ValidateLists(Lists(PhaseLoop(evs)))

-----------------------------------------------------------------------------
(* Time: microseconds; datetime / timedelta arithmetic                     *)

SECOND == 1000000
_TOLERANCE == 60 * SECOND

\* timedelta / int: rounds to the nearest microsecond, ties to even
DivRound(a, b) ==
    LET q == a \div b
        r == a % b
    IN IF 2 * r < b THEN q
       ELSE IF 2 * r > b THEN q + 1
       ELSE IF q % 2 = 0 THEN q ELSE q + 1

\* strftime("%Y-%m-%dT%H:%M:%SZ"): the fraction of a second is dropped, and
\* the text parses back (fromisoformat) as an offset-aware instant
strftime(v) == [k |-> "aware", v |-> v - (v % SECOND)]

NoTime == [k |-> "none", v |-> 0]

\* datetime.fromisoformat(text) raises ValueError / TypeError
Unparseable(t) == t.k \notin {"aware", "naive"}

\* Ordering two datetimes of which exactly one carries an offset raises
\* TypeError
Incomparable(a, b) == a.k # b.k

-----------------------------------------------------------------------------
(* LogIntegrityValidator                                                   *)

Warning(kind, name, ts, hint) ==
    [kind |-> kind, name |-> name, ts |-> ts, hint |-> hint]

CorrectableEntry(index, sid, p, ts, reason) ==
    [index |-> index, step_id |-> sid, phase_name |-> p,
     original_timestamp |-> ts, reason |-> reason]

IntegrityResult(raised, warnings, correctable) ==
    [raised |-> raised, warnings |-> warnings,
     correctable_entries |-> correctable]

\* difflib.get_close_matches(name, valid_phases, n=1, cutoff=0.5) on the
\* phase names of the model: <<>> or <<best match>>
get_close_matches(name) ==
    IF name = "GRREEN" THEN <<"GREEN">> ELSE <<>>

\* LogIntegrityValidator._check_phase_names
RECURSIVE _check_phase_names(_, _)
_check_phase_names(step_id, all_events) ==
    IF all_events = <<>> THEN <<>>
    ELSE LET event == Head(all_events)
         IN (IF event.step_id = step_id
                /\ event.phase_name \notin Range(TddPhases)
             THEN <<Warning("phase_name", event.phase_name, NoTime,
                            get_close_matches(event.phase_name))>>
             ELSE <<>>)
            \o _check_phase_names(step_id, Tail(all_events))

\* The step ids of the model, in the order sorted() puts them
StepIds == <<"01-01", "01-02", "01-03">>

\* sorted(foreign_ids) as a list
SortedSeq(S) == SelectSeq(StepIds, LAMBDA x : x \in S)

\* The warnings of _check_foreign_step_ids, one per foreign id
ForeignWarnings(ids) ==
    [i \in DOMAIN ids |-> Warning("foreign", ids[i], NoTime, <<>>)]

\* The events _check_foreign_step_ids compares with the task start
ForeignJudged(step_id, all_events) ==
    {i \in DOMAIN all_events :
        /\ all_events[i].step_id # step_id
        /\ ~Unparseable(all_events[i].timestamp)}

\* The loop of _check_foreign_step_ids over the judged events:
\* [raised, warnings]
ForeignLoop(all_events, start_dt, judged) ==
    IF \E i \in judged : Incomparable(all_events[i].timestamp, start_dt)
    THEN [raised |-> TRUE, warnings |-> <<>>]
    ELSE [raised |-> FALSE,
          warnings |-> ForeignWarnings(SortedSeq(
              {all_events[i].step_id : i \in
                  {j \in judged : all_events[j].timestamp.v >= start_dt.v}}))]

\* LogIntegrityValidator._check_foreign_step_ids
\* [raised, warnings]
_check_foreign_step_ids(step_id, all_events, task_start_time) ==
    IF task_start_time.k = "none" \/ Unparseable(task_start_time)
    THEN [raised |-> FALSE, warnings |-> <<>>]
    ELSE ForeignLoop(all_events, task_start_time,
                     ForeignJudged(step_id, all_events))

\* The body of the `for idx, event in enumerate(all_events)` loop of
\* _check_timestamps for one event: [raised, warnings, correctable]
TimestampStep(idx, event, step_id, start_dt, now) ==
    LET nothing == IntegrityResult(FALSE, <<>>, <<>>)
        ts == event.timestamp
    IN IF event.step_id # step_id THEN nothing
       ELSE IF Unparseable(ts) THEN nothing
       ELSE IF Incomparable(ts, now) THEN IntegrityResult(TRUE, <<>>, <<>>)
       ELSE IF ts.v > now.v
       THEN IntegrityResult(FALSE,
                <<Warning("future", event.phase_name, ts, <<>>)>>,
                <<CorrectableEntry(idx, event.step_id, event.phase_name, ts,
                                   "future")>>)
       ELSE IF start_dt.k = "none" THEN nothing
       ELSE IF Incomparable(ts, start_dt) THEN IntegrityResult(TRUE, <<>>, <<>>)
       ELSE IF ts.v < start_dt.v - _TOLERANCE
       THEN IntegrityResult(FALSE,
                <<Warning("pre_task", event.phase_name, ts, <<>>)>>,
                <<CorrectableEntry(idx, event.step_id, event.phase_name, ts,
                                   "pre_task")>>)
       ELSE IF ts.v < start_dt.v
       THEN IntegrityResult(FALSE,
                <<Warning("pre_task", event.phase_name, ts, <<>>)>>, <<>>)
       ELSE nothing

\* The warnings and correctable entries of the loop, in trace order
GatherTimestamps(per) ==
    IntegrityResult(\E i \in DOMAIN per : per[i].raised,
                    Concat([i \in DOMAIN per |-> per[i].warnings]),
                    Concat([i \in DOMAIN per |-> per[i].correctable_entries]))

\* start_dt of _check_timestamps: None when absent or unparseable
StartDt(task_start_time) ==
    IF task_start_time.k = "none" \/ Unparseable(task_start_time)
    THEN NoTime ELSE task_start_time

\* LogIntegrityValidator._check_timestamps; idx counts from 0 as enumerate does
_check_timestamps(step_id, all_events, task_start_time, now) ==
    GatherTimestamps(
        [i \in DOMAIN all_events |->
            TimestampStep(i - 1, all_events[i], step_id,
                          StartDt(task_start_time), now)])

\* The IntegrityResult of the three checks
CombineChecks(names, foreign, stamps) ==
    IF foreign.raised \/ stamps.raised
    THEN IntegrityResult(TRUE, <<>>, <<>>)
    ELSE IntegrityResult(FALSE,
             names \o foreign.warnings \o stamps.warnings,
             stamps.correctable_entries)

\* LogIntegrityValidator.validate: raised means an exception left the call
integrity_validate(step_id, all_events, task_start_time, now) ==
    CombineChecks(_check_phase_names(step_id, all_events),
                  _check_foreign_step_ids(step_id, all_events, task_start_time),
                  _check_timestamps(step_id, all_events, task_start_time, now))

-----------------------------------------------------------------------------
(* SubagentStopService                                                     *)

PROJECT == "proj"

HookDecision(action, reason, exit_code, recovery) ==
    [action |-> action, reason |-> reason, exit_code |-> exit_code,
     recovery_suggestions |-> recovery]

Reason(kind, msgs) == [kind |-> kind, msgs |-> msgs]

\* HookDecision.allow
allow == HookDecision("allow", Reason("None", <<>>), 0, <<>>)

\* HookDecision.block that drops the recovery suggestions
block_without_recovery(reason, recovery) ==
    HookDecision("block", reason, 2, <<>>)

\* HookDecision.block
block(reason, recovery) == HookDecision("block", reason, 2, recovery)

\* No HookDecision: an exception left validate
NoDecision == HookDecision("none", Reason("None", <<>>), 0 - 1, <<>>)

AuditEvent(type, keys, adf, info) ==
    [event_type |-> type, feature_name |-> PROJECT, keys |-> keys,
     allowed_despite_failure |-> adf, info |-> info]

\* SubagentStopService._add_execution_stats: the keys it adds
_add_execution_stats(turns_used, tokens_used) ==
    (IF turns_used.some THEN {"turns_used"} ELSE {})
    \cup (IF tokens_used.some THEN {"tokens_used"} ELSE {})

\* SubagentStopService._log_passed
_log_passed(ctx) ==
    AuditEvent("HOOK_SUBAGENT_STOP_PASSED",
               _add_execution_stats(ctx.turns_used, ctx.tokens_used),
               FALSE, <<>>)

\* _log_failed that never sets data["allowed_despite_failure"]
_log_failed_flag_dropped(ctx, error_messages, allowed_despite_failure) ==
    AuditEvent("HOOK_SUBAGENT_STOP_FAILED",
               {"validation_errors"}
               \cup _add_execution_stats(ctx.turns_used, ctx.tokens_used),
               FALSE, error_messages)

\* SubagentStopService._log_failed
_log_failed(ctx, error_messages, allowed_despite_failure) ==
    AuditEvent("HOOK_SUBAGENT_STOP_FAILED",
               {"validation_errors"}
               \cup (IF allowed_despite_failure
                     THEN {"allowed_despite_failure"} ELSE {})
               \cup _add_execution_stats(ctx.turns_used, ctx.tokens_used),
               allowed_despite_failure, error_messages)

\* SubagentStopService._log_commit_verified
_log_commit_verified(ctx) ==
    AuditEvent("COMMIT_VERIFIED",
               {"commit_hash", "commit_date", "commit_subject"}
               \cup _add_execution_stats(ctx.turns_used, ctx.tokens_used),
               FALSE, <<>>)

\* SubagentStopService._log_commit_not_verified
_log_commit_not_verified(ctx) ==
    AuditEvent("COMMIT_NOT_VERIFIED", {"error_reason"}, FALSE, <<>>)

\* _check_and_log_scope that leaves its loop after the first file
_check_and_log_scope_first_only(ctx, out_of_scope_files) ==
    [i \in DOMAIN out_of_scope_files \cap {1} |->
        AuditEvent("SCOPE_VIOLATION", {"out_of_scope_file"}, FALSE,
                   <<out_of_scope_files[i]>>)]

\* SubagentStopService._check_and_log_scope: one event per out-of-scope file
_check_and_log_scope(ctx, out_of_scope_files) ==
    [i \in DOMAIN out_of_scope_files |->
        AuditEvent("SCOPE_VIOLATION", {"out_of_scope_file"}, FALSE,
                   <<out_of_scope_files[i]>>)]

\* `entry.original_timestamp in old_event_str` for a raw entry: only a str
\* is searched, and the timestamp text is its fifth field
ContainsTimestamp(raw, ts) ==
    raw.fmt = "pipe" /\ raw.nf >= MINIMUM_FIELDS /\ raw.t = ts

\* The interpolation with `step * i` for `step * (i + 1)`: the first instant
\* is the start itself
Interpolated_from_start(n, start, now) ==
    IF n = 1
    THEN << start >>
    ELSE [i \in 1..n |-> start + DivRound(now - start, n + 1) * (i - 1)]

\* The interpolated instants of _correct_timestamps, one per entry
Interpolated(n, start, now) ==
    IF n = 1
    THEN << start + DivRound(now - start, 2) >>
    ELSE [i \in 1..n |-> start + DivRound(now - start, n + 1) * i]

\* The `for entry, new_ts in zip(correctable, interpolated)` loop over the
\* raw list: [raw, corrected (indices), audit]
RECURSIVE CorrectLoop(_, _, _, _)

\* The loop leaving at the first entry it cannot correct, rather than
\* going on with the next one
CorrectLoop_stops_at_miss(raw, correctable, interpolated, k) ==
    LET done == {j \in k..Len(correctable) :
                    \A i \in k..j :
                        /\ correctable[i].index < Len(raw)
                        /\ ContainsTimestamp(raw[correctable[i].index + 1],
                               correctable[i].original_timestamp)}
        js == SelectSeq([j \in DOMAIN correctable |-> j],
                        LAMBDA j : j \in done)
    IN [raw |-> [i \in DOMAIN raw |->
                    IF \E j \in done : correctable[j].index + 1 = i
                    THEN [raw[i] EXCEPT !.t = strftime(interpolated[
                            CHOOSE j \in done :
                                correctable[j].index + 1 = i])]
                    ELSE raw[i]],
        corrected |-> {correctable[j].index : j \in done},
        audit |-> [n \in DOMAIN js |->
                    AuditEvent("LOG_INTEGRITY_CORRECTED",
                        {"phase", "original_timestamp",
                         "corrected_timestamp", "reason"}, FALSE,
                        << [phase |-> correctable[js[n]].phase_name,
                            original_timestamp |->
                                correctable[js[n]].original_timestamp,
                            corrected_timestamp |->
                                strftime(interpolated[js[n]]),
                            reason |-> correctable[js[n]].reason] >>)]]

CorrectLoop(raw, correctable, interpolated, k) ==
    IF k > Len(correctable)
    THEN [raw |-> raw, corrected |-> {}, audit |-> <<>>]
    ELSE
    LET entry == correctable[k]
        new_ts_str == strftime(interpolated[k])
        hit == /\ entry.index < Len(raw)
               /\ ContainsTimestamp(raw[entry.index + 1],
                                    entry.original_timestamp)
        raw1 == IF hit
                THEN [raw EXCEPT ![entry.index + 1].t = new_ts_str]
                ELSE raw
        rest == CorrectLoop(raw1, correctable, interpolated, k + 1)
    IN IF hit
       THEN [raw |-> rest.raw,
             corrected |-> {entry.index} \cup rest.corrected,
             audit |-> << AuditEvent("LOG_INTEGRITY_CORRECTED",
                            {"phase", "original_timestamp",
                             "corrected_timestamp", "reason"}, FALSE,
                            << [phase |-> entry.phase_name,
                                original_timestamp |-> entry.original_timestamp,
                                corrected_timestamp |-> new_ts_str,
                                reason |-> entry.reason] >>) >>
                        \o rest.audit]
       ELSE rest

\* start of _correct_timestamps: the task start, or now when it is absent
\* or unparseable
CorrectionStart(ctx, now) ==
    IF ctx.task_start_time.k = "none" \/ Unparseable(ctx.task_start_time)
    THEN now.v ELSE ctx.task_start_time.v

\* The write-back of _correct_timestamps: best effort
WriteBack(raw, io, loop) ==
    [raw |-> IF io.write THEN loop.raw ELSE raw,
     corrected |-> loop.corrected,
     audit |-> loop.audit]

\* SubagentStopService._correct_timestamps
\* io.raw_read / io.write say whether reading / writing the file succeeds
\* [raw (the file afterwards), corrected, audit]
_correct_timestamps(ctx, correctable, raw, now, io) ==
    IF ~io.raw_read
    THEN [raw |-> raw, corrected |-> {}, audit |-> <<>>]
    ELSE WriteBack(raw, io,
            CorrectLoop(raw, correctable,
                        Interpolated(Len(correctable),
                                     CorrectionStart(ctx, now), now.v),
                        1))

\* `entry.index in corrected_entries and entry.phase_name in warning and
\*  entry.original_timestamp in warning`: only the timestamp warnings carry
\* a timestamp text
WarningOfEntry(warning, entry) ==
    /\ warning.kind \in {"future", "pre_task"}
    /\ warning.name = entry.phase_name
    /\ warning.ts = entry.original_timestamp

\* is_corrected of _check_and_correct_integrity
is_corrected(warning, correctable, corrected_entries) ==
    \E i \in DOMAIN correctable :
        /\ correctable[i].index \in corrected_entries
        /\ WarningOfEntry(warning, correctable[i])

\* The LOG_INTEGRITY_WARNING events of the warnings that are logged
WarningEvents(remaining) ==
    [i \in DOMAIN remaining |->
        AuditEvent("LOG_INTEGRITY_WARNING", {"warning"}, FALSE,
                   <<remaining[i]>>)]

\* _check_and_correct_integrity returns without having changed anything
Quiet(raw, raised, calls) ==
    [raised |-> raised, raw |-> raw, audit |-> <<>>, calls |-> calls,
     corrected |-> {}, result |-> IntegrityResult(FALSE, <<>>, <<>>)]

\* _check_and_correct_integrity after the correction: the warnings loop
LogWarnings(result, fix) ==
    [raised |-> FALSE,
     raw |-> fix.raw,
     audit |-> fix.audit \o
               WarningEvents(SelectSeq(result.warnings,
                   LAMBDA w : ~is_corrected(w, result.correctable_entries,
                                            fix.corrected))),
     calls |-> <<"read_all_events", "integrity_validate">> \o
               (IF result.correctable_entries # <<>>
                THEN <<"correct_timestamps">> ELSE <<>>),
     corrected |-> fix.corrected,
     result |-> result]

\* _check_and_correct_integrity once the integrity validator has answered
CorrectAndLog(ctx, raw, now, io, result) ==
    IF result.raised
    THEN Quiet(raw, TRUE, <<"read_all_events", "integrity_validate">>)
    ELSE LogWarnings(result,
            IF result.correctable_entries # <<>>
            THEN _correct_timestamps(ctx, result.correctable_entries, raw,
                                     now, io)
            ELSE [raw |-> raw, corrected |-> {}, audit |-> <<>>])

\* SubagentStopService._check_and_correct_integrity
\* [raised, raw (the file afterwards), audit, calls, corrected, result]
_check_and_correct_integrity(ctx, cfg, raw, now, io) ==
    IF ~cfg.integrity_validator THEN Quiet(raw, FALSE, <<>>)
    ELSE IF ~io.read_all THEN Quiet(raw, FALSE, <<"read_all_events">>)
    ELSE CorrectAndLog(ctx, raw, now, io,
            integrity_validate(ctx.step_id, parse_all(raw),
                               ctx.task_start_time, now))

\* What one invocation of SubagentStopService.validate did
Outcome(decision, raised, calls, audit, raw, compl, validated) ==
    [decision |-> decision, raised |-> raised, calls |-> calls,
     audit |-> audit, raw |-> raw, completion |-> compl,
     validated |-> validated]

\* error_message that is always the generic text
ErrorMessage_generic(error_parts) == Reason("Validation failed", <<>>)

\* error_message = "; ".join(error_parts) if error_parts else "Validation failed"
ErrorMessage(error_parts) ==
    IF error_parts # <<>>
    THEN Reason("completion", error_parts)
    ELSE Reason("Validation failed", <<>>)

\* The branch without the stop_hook_active test: an invalid step always blocks
InvalidCompletion_always_blocks(ctx, compl, evs, calls, audit, raw) ==
    Outcome(block(ErrorMessage(compl.error_messages), compl.recovery_suggestions),
            FALSE, calls,
            audit \o <<_log_failed(ctx, compl.error_messages, FALSE)>>,
            raw, compl, evs)

\* The `if not completion.is_valid` branch of SubagentStopService.validate
InvalidCompletion(ctx, compl, evs, calls, audit, raw) ==
    LET error_parts == compl.error_messages
    IN IF ctx.stop_hook_active
       THEN Outcome(allow, FALSE, calls,
                    audit \o <<_log_failed(ctx, error_parts, TRUE)>>,
                    raw, compl, evs)
       ELSE Outcome(block(ErrorMessage(error_parts), compl.recovery_suggestions),
                    FALSE, calls,
                    audit \o <<_log_failed(ctx, error_parts, FALSE)>>,
                    raw, compl, evs)

\* Steps 3.5 to 5 with commit verification left out on a repeat attempt
VerifyCommitThenPass_unless_repeat(ctx, cfg, compl, evs, calls, audit, raw, io) ==
    LET commit_checked == ctx.cwd # "" /\ cfg.commit_verifier
                          /\ ~ctx.stop_hook_active
        calls35 == calls \o (IF commit_checked THEN <<"verify_commit">> ELSE <<>>)
    IN IF commit_checked /\ ~io.commit_verified
       THEN Outcome(block(Reason("COMMIT_NOT_VERIFIED", <<>>),
                          << Msg("CreateCommitWithTrailer", ctx.step_id, <<>>),
                             Msg("EnsureCommitPhaseCommits", "", <<>>),
                             Msg("CheckGitAvailable", "", <<>>) >>),
                    FALSE, calls35,
                    audit \o <<_log_commit_not_verified(ctx)>>,
                    raw, compl, evs)
       ELSE Outcome(allow, FALSE, calls35 \o <<"check_scope">>,
                    audit \o (IF commit_checked
                              THEN <<_log_commit_verified(ctx)>> ELSE <<>>)
                          \o _check_and_log_scope(ctx, io.out_of_scope_files)
                          \o <<_log_passed(ctx)>>,
                    raw, compl, evs)

\* Steps 3.5 to 5 of SubagentStopService.validate: commit, scope, passed
VerifyCommitThenPass(ctx, cfg, compl, evs, calls, audit, raw, io) ==
    LET commit_checked == ctx.cwd # "" /\ cfg.commit_verifier
        calls35 == calls \o (IF commit_checked THEN <<"verify_commit">> ELSE <<>>)
    IN IF commit_checked /\ ~io.commit_verified
       THEN Outcome(block(Reason("COMMIT_NOT_VERIFIED", <<>>),
                          << Msg("CreateCommitWithTrailer", ctx.step_id, <<>>),
                             Msg("EnsureCommitPhaseCommits", "", <<>>),
                             Msg("CheckGitAvailable", "", <<>>) >>),
                    FALSE, calls35,
                    audit \o <<_log_commit_not_verified(ctx)>>,
                    raw, compl, evs)
       ELSE Outcome(allow, FALSE, calls35 \o <<"check_scope">>,
                    audit \o (IF commit_checked
                              THEN <<_log_commit_verified(ctx)>> ELSE <<>>)
                          \o _check_and_log_scope(ctx, io.out_of_scope_files)
                          \o <<_log_passed(ctx)>>,
                    raw, compl, evs)

\* The branch that consults the commit verifier before it looks at the
\* completion result
CompletionBranch_commit_first(ctx, cfg, compl, evs, calls, audit, raw, io) ==
    IF ~compl.is_valid
    THEN InvalidCompletion(ctx, compl, evs, calls \o <<"verify_commit">>,
                           audit, raw)
    ELSE VerifyCommitThenPass(ctx, cfg, compl, evs, calls, audit, raw, io)

\* Steps 3 to 5 of SubagentStopService.validate once the completion
\* validator has answered
CompletionBranch(ctx, cfg, compl, evs, calls, audit, raw, io) ==
    IF ~compl.is_valid
    THEN InvalidCompletion(ctx, compl, evs, calls, audit, raw)
    ELSE VerifyCommitThenPass(ctx, cfg, compl, evs, calls, audit, raw, io)

\* Steps 3 to 5 of SubagentStopService.validate: completion, commit, scope
Decide(ctx, cfg, evs, calls, audit, raw, io) ==
    CompletionBranch(ctx, cfg, validate(evs), evs,
                     calls \o <<"completion_validate">>, audit, raw, io)

\* No re-read: completion validation gets the events read before
Reread_skipped(io, raw, step_id, evs) == evs

\* The re-read of the step's events after the integrity check: the events
\* of the trace as it is now, or the events read before when the read fails
Reread(io, raw, step_id, evs) ==
    IF io.reread = "ok" THEN parse_many(raw, step_id) ELSE evs

\* A decision of SubagentStopService.validate before any event is read
Early(decision, calls, raw) ==
    Outcome(decision, FALSE, calls, <<>>, raw, NoCompletion, <<>>)

\* SubagentStopService.validate from the re-read on; integ is what
\* _check_and_correct_integrity did, events1 the events read before it
AfterIntegrity(ctx, cfg, io, events1, integ) ==
    IF integ.raised
    THEN Outcome(NoDecision, TRUE,
                 <<"read_project_id", "read_step_events">> \o integ.calls,
                 integ.audit, integ.raw, NoCompletion, <<>>)
    ELSE Decide(ctx, cfg, Reread(io, integ.raw, ctx.step_id, events1),
                <<"read_project_id", "read_step_events">> \o integ.calls
                    \o <<"read_step_events">>,
                integ.audit, integ.raw, io)

\* SubagentStopService.validate
\* ctx: SubagentStopContext; cfg: the collaborators the service was built
\* with; raw: the persisted trace; io: what the collaborators answer
SubagentStopValidate(ctx, cfg, raw, now, io) ==
    IF io.read_project_id = "not_found"
    THEN Early(block(Reason("LOG_FILE_NOT_FOUND", <<>>),
                     << Msg("CreateExecutionLog", "", <<>>),
                        Msg("RunOrchestratorToInit", "", <<>>) >>),
               <<"read_project_id">>, raw)
    ELSE IF io.read_project_id = "corrupt"
    THEN Early(block(Reason("LOG_FILE_CORRUPTED", <<>>),
                     << Msg("FixYamlSyntax", "", <<>>) >>),
               <<"read_project_id">>, raw)
    ELSE IF io.log_project_id # ctx.project_id
    THEN Early(block(Reason("PROJECT_ID_MISMATCH", <<>>),
                     << Msg("VerifyProject", ctx.project_id, <<>>),
                        Msg("CheckProjectIdMarker", "", <<>>) >>),
               <<"read_project_id">>, raw)
    ELSE IF io.read_step_events # "ok"
    THEN Early(block(Reason("READ_STEP_EVENTS_FAILED", <<>>),
                     << Msg("CheckLogIntegrity", "", <<>>) >>),
               <<"read_project_id", "read_step_events">>, raw)
    ELSE AfterIntegrity(ctx, cfg, io, parse_many(raw, ctx.step_id),
                        _check_and_correct_integrity(ctx, cfg, raw, now, io))

\* The calls validate has made when it logs an audit event of the given
\* type: those up to the collaborator call that the log_event follows
CallsBefore(event_type, calls) ==
    SubSeq(calls, 1, CHOOSE i \in DOMAIN calls :
        /\ calls[i] =
             IF event_type \in {"LOG_INTEGRITY_CORRECTED",
                                "LOG_INTEGRITY_WARNING"}
             THEN IF "correct_timestamps" \in Range(calls)
                  THEN "correct_timestamps" ELSE "integrity_validate"
             ELSE IF event_type \in {"COMMIT_VERIFIED", "COMMIT_NOT_VERIFIED"}
             THEN "verify_commit"
             ELSE IF event_type = "HOOK_SUBAGENT_STOP_FAILED"
             THEN "completion_validate"
             ELSE "check_scope"
        /\ \A j \in 1..(i - 1) : calls[j] # calls[i])

\* SubagentStopService.validate when the k-th self._audit_writer.log_event
\* of the run raises; out is the run with a writer that never raises and raw
\* the trace before the run.  No log_event call of the service is inside a
\* try block, so the exception leaves validate at that call: the events
\* before it are logged, a LOG_INTEGRITY_CORRECTED that raises comes before
\* the write-back of the trace, and no HookDecision is returned.
log_event_raises(out, raw, k) ==
    IF k > Len(out.audit) THEN out
    ELSE Outcome(NoDecision, TRUE,
                 CallsBefore(out.audit[k].event_type, out.calls),
                 SubSeq(out.audit, 1, k - 1),
                 IF out.audit[k].event_type = "LOG_INTEGRITY_CORRECTED"
                 THEN raw ELSE out.raw,
                 IF "completion_validate" \in
                        Range(CallsBefore(out.audit[k].event_type, out.calls))
                 THEN out.completion ELSE NoCompletion,
                 IF "completion_validate" \in
                        Range(CallsBefore(out.audit[k].event_type, out.calls))
                 THEN out.validated ELSE <<>>)

\* handle_subagent_stop of claude_code_hook_adapter: the exit code it
\* returns and the decision of the JSON it prints.  input is what stdin and
\* the transcript gave: nothing, malformed JSON, the direct protocol with a
\* field missing, an agent without DES markers, or a DES step; out is what
\* service.validate did for a DES step.
handle_subagent_stop(input, out) ==
    [handler |-> "subagent_stop", input |-> input, context |-> "none",
     exit_code |-> IF input \in {"empty_stdin", "non_des_agent"} THEN 0
                   ELSE IF input \in {"json_parse_error", "missing_fields"}
                   THEN 1
                   \* except Exception: fail-closed
                   ELSE IF out.raised THEN 1
                   \* allow, and block: "Exit 0 so Claude Code processes
                   \* the JSON"
                   ELSE 0,
     response |-> IF input \in {"empty_stdin", "non_des_agent"} THEN "allow"
                  ELSE IF input \in {"json_parse_error", "missing_fields"}
                  THEN "error"
                  ELSE IF out.raised THEN "none"
                  ELSE out.decision.action]

-----------------------------------------------------------------------------
(* The DES task signal files and the session guard                         *)

\* .nwave/des before any hook ran: no deliver-session.json, no signal file.
\* namespaced: the steps with a des-task-active-<project>--<step> file;
\* legacy: the step in the des-task-active singleton ("" when absent);
\* active / running / denied / dispatched: the DES agents that have not
\* been allowed to stop, those whose stop was never processed, those whose
\* last stop was blocked with no pre-tool-use since, those ever dispatched
NoSession ==
    [deliver |-> FALSE, namespaced |-> {}, legacy |-> "",
     active |-> {}, running |-> {}, denied |-> {}, dispatched |-> {}]

\* _create_des_task_signal: the namespaced file and the legacy singleton
\* are both written
_create_des_task_signal(files, step_id) ==
    [namespaced |-> files.namespaced \cup {step_id}, legacy |-> step_id]

\* _read_des_task_signal: the step of the signal that is read, "" for None;
\* the namespaced file first, then the legacy singleton
_read_des_task_signal(files, step_id) ==
    IF step_id # "" /\ step_id \in files.namespaced THEN step_id
    ELSE files.legacy

\* _remove_des_task_signal that leaves the step's namespaced file in place
_remove_des_task_signal_legacy_only(files, step_id) ==
    [namespaced |-> files.namespaced, legacy |-> ""]

\* _remove_des_task_signal: the step's namespaced file and the legacy
\* singleton are both unlinked
_remove_des_task_signal(files, step_id) ==
    [namespaced |-> IF step_id # "" THEN files.namespaced \ {step_id}
                    ELSE files.namespaced,
     legacy |-> ""]

\* The files the model writes, each with the patterns `p in file_path`
\* finds in it
WritePaths ==
    { [path |-> "src/des/app.py", has |-> {"src/"}],
      [path |-> "tests/test_app.py", has |-> {"tests/"}],
      [path |-> "docs/feature/proj/src/notes.md",
       has |-> {"docs/feature/", "src/"}],
      [path |-> ".nwave/des/state.json", has |-> {".nwave/"}],
      [path |-> "README.md", has |-> {}] }

\* SessionGuardPolicy.check: GuardResult.blocked.  ALLOWED_PATTERNS are
\* tested before PROTECTED_PATTERNS
check(file_path, session_active, des_task_active) ==
    IF ~session_active THEN FALSE
    ELSE IF file_path.has
              \cap {"docs/feature/", ".nwave/", ".develop-progress"} # {}
    THEN FALSE
    ELSE IF file_path.has \cap {"src/", "tests/"} = {} THEN FALSE
    ELSE IF des_task_active THEN FALSE
    ELSE TRUE

\* handle_pre_write: exit code and printed decision.  input is what stdin
\* gave (context: the file_path of a write); des_task_active is
\* DES_TASK_ACTIVE_FILE.exists()
handle_pre_write(input, file_path, files) ==
    IF input \in {"empty_stdin", "json_parse_error"}
    THEN [handler |-> "pre_write", input |-> input, context |-> "none",
          exit_code |-> 0, response |-> "allow"]
    ELSE IF check(file_path, files.deliver, files.legacy # "")
    THEN [handler |-> "pre_write", input |-> input,
          context |-> file_path.path, exit_code |-> 2, response |-> "block"]
    ELSE [handler |-> "pre_write", input |-> input,
          context |-> file_path.path, exit_code |-> 0, response |-> "allow"]

-----------------------------------------------------------------------------
(* The inputs of the model                                                 *)

\* The schema of nWave/templates/step-tdd-cycle-schema.json, cut to two
\* phases
DefaultSchema ==
    TDDSchema(<<"GREEN", "COMMIT">>,
              <<"EXECUTED", "SKIPPED", "IN_PROGRESS", "NOT_EXECUTED">>,
              << <<"NOT_APPLICABLE">>, <<"BLOCKED_BY_DEPENDENCY">>,
                 <<"APPROVED_SKIP">>, <<"CHECKPOINT_PENDING">> >>,
              << <<"DEFERRED">> >>,
              <<"COMMIT">>)

\* A deployment with one phase
SinglePhaseSchema ==
    [DefaultSchema EXCEPT !.tdd_phases = <<"COMMIT">>]

\* A deployment with three phases whose skip_validation.valid_prefixes has
\* "DEFERRED" with allows_commit false and "DEFERRED_APPROVED" with
\* allows_commit true: a reason can start with both
OverlapSchema ==
    [DefaultSchema EXCEPT
        !.tdd_phases = <<"GREEN", "REFACTOR", "COMMIT">>,
        !.valid_skip_prefixes =
            << <<"NOT_APPLICABLE">>, <<"DEFERRED", "_APPROVED">> >>]

Schemas == {DefaultSchema, SinglePhaseSchema, OverlapSchema}

STEP == "01-01"
OTHER_STEP == "01-02"

Aware(v) == [k |-> "aware", v |-> v]
Naive(v) == [k |-> "naive", v |-> v]

\* now_utc() during the hook run, and the signal's created_at
NOW == Aware(600 * SECOND + 500000)
T_START == Aware(300 * SECOND + 250000)

T_OK == Aware(400 * SECOND)         \* inside the task window
T_FUTURE == Aware(900 * SECOND)     \* after now
T_PRE == Aware(100 * SECOND)        \* more than 60 s before the task start
T_NAIVE == Naive(400 * SECOND)      \* no UTC offset in the text

Pipe(sid, p, st, d, t) ==
    [fmt |-> "pipe", nf |-> 5, keys |-> {}, sid |-> sid, p |-> p, s |-> st,
     d |-> d, t |-> t, tu |-> NoRawStat, tk |-> NoRawStat]

\* A structured entry {sid, p, s, d, t}, as log_phase writes it
Dict(sid, p, st, d, t) ==
    [fmt |-> "dict", nf |-> 0, keys |-> STRUCTURED_REQUIRED_KEYS, sid |-> sid,
     p |-> p, s |-> st, d |-> d, t |-> t, tu |-> NoRawStat, tk |-> NoRawStat]

\* What the sub-agent may append to the trace
RawEntries ==
    { Pipe(STEP, "GREEN", "EXECUTED", PASS, T_FUTURE),
      Dict(STEP, "COMMIT", "EXECUTED", PASS, T_OK),
      Pipe(OTHER_STEP, "GREEN", "EXECUTED", PASS, T_FUTURE),
      Pipe(STEP, "GRREEN", "EXECUTED", PASS, T_PRE),
      Pipe(STEP, "GREEN", "EXECUTED", PASS, T_NAIVE) }

\* What the collaborators answer under a fault; one fault at most per hook run
Io(fault, commit_verified, out_of_scope_files) ==
    [read_project_id |-> IF fault = "log_not_found" THEN "not_found"
                         ELSE IF fault = "log_corrupt" THEN "corrupt" ELSE "ok",
     log_project_id |-> IF fault = "other_project" THEN "other"
                        ELSE IF fault = "no_project_id" THEN "None"
                        ELSE PROJECT,
     read_step_events |-> IF fault = "events_not_found" THEN "not_found"
                          ELSE IF fault = "events_corrupt" THEN "corrupt"
                          ELSE "ok",
     read_all |-> fault # "read_all_failed",
     raw_read |-> fault # "raw_read_failed",
     write |-> fault # "write_failed",
     reread |-> IF fault = "reread_failed" THEN "failed" ELSE "ok",
     commit_verified |-> commit_verified,
     \* ScopeCheckResult: a skipped check reports no file
     scope_skipped |-> fault = "scope_skipped",
     out_of_scope_files |-> out_of_scope_files]

Invocation(sha, cwd, cv, verified, integ, start, fault, scope) ==
    [stop_hook_active |-> sha, cwd |-> cwd, commit_verifier |-> cv,
     commit_verified |-> verified, integrity_validator |-> integ,
     task_start_time |-> start, fault |-> fault, out_of_scope_files |-> scope]

\* The faults of the calls that only an integrity validator makes
IntegrityFaults == {"read_all_failed", "raw_read_failed", "write_failed"}

\* The faults that end the run before the integrity validator is reached
EarlyFaults ==
    { "log_not_found", "log_corrupt", "other_project", "no_project_id",
      "events_not_found", "events_corrupt" }

\* cwd, commit verifier configured, commit verified
CommitInputs ==
    { <<"", TRUE, FALSE>>, <<"/repo", FALSE, FALSE>>,
      <<"/repo", TRUE, TRUE>>, <<"/repo", TRUE, FALSE>> }

\* The hook runs of the model.  With reliable collaborators: the production
\* wiring (integrity validator and commit verifier configured) in every
\* commit situation, without a task start time and with an out-of-scope
\* file, and the service without integrity validator.  With a fault: the
\* production wiring, and the service without integrity validator where
\* the fault can reach it.
Invocations ==
    { Invocation(sha, c[1], c[2], c[3], TRUE, T_START, "none", <<>>) :
        sha \in BOOLEAN, c \in CommitInputs }
    \cup
    { Invocation(sha, "/repo", TRUE, verified, FALSE, T_START, "none", <<>>) :
        sha \in BOOLEAN, verified \in BOOLEAN }
    \cup
    { Invocation(sha, "/repo", TRUE, TRUE, TRUE, NoTime, "none", <<>>) :
        sha \in BOOLEAN }
    \cup
    { Invocation(sha, "/repo", TRUE, TRUE, TRUE, T_START, "none",
                 <<"README.md">>) : sha \in BOOLEAN }
    \cup
    { Invocation(sha, "/repo", TRUE, TRUE, TRUE, T_START, "none",
                 <<"README.md", "src/other.py">>) : sha \in BOOLEAN }
    \cup
    { Invocation(sha, "/repo", TRUE, TRUE, TRUE, T_START, "scope_skipped",
                 <<>>) : sha \in BOOLEAN }
    \cup
    { Invocation(sha, "/repo", TRUE, FALSE, TRUE, T_START, fault, <<>>) :
        sha \in BOOLEAN, fault \in EarlyFaults \cup IntegrityFaults }
    \cup
    { Invocation(sha, "/repo", TRUE, FALSE, integ, T_START, "reread_failed",
                 <<>>) : sha \in BOOLEAN, integ \in BOOLEAN }

Context(inv) ==
    [execution_log_path |-> "docs/feature/proj/execution-log.yaml",
     project_id |-> PROJECT, step_id |-> STEP,
     stop_hook_active |-> inv.stop_hook_active, cwd |-> inv.cwd,
     task_start_time |-> inv.task_start_time,
     turns_used |-> NoStat, tokens_used |-> NoStat]

Config(inv) ==
    [integrity_validator |-> inv.integrity_validator,
     commit_verifier |-> inv.commit_verifier]

-----------------------------------------------------------------------------
(* Specification Spec: the sub-agent writes the trace, the SubagentStop    *)
(* hook validates it, the host acts on the decision and may fire the hook  *)
(* again                                                                   *)

\* No _check_and_correct_integrity run yet
NoIntegrityRun ==
    [pc |-> "idle", task_start_time |-> NoTime, fault |-> "none",
     before |-> <<>>, out |-> Quiet(<<>>, FALSE, <<>>),
     second |-> IntegrityResult(FALSE, <<>>, <<>>)]

Idle ==
    [ran |-> FALSE, inv |-> Invocation(FALSE, "", FALSE, FALSE, FALSE, NoTime,
                                       "none", <<>>),
     decision |-> NoDecision, raised |-> FALSE, calls |-> <<>>,
     completion |-> NoCompletion, validated |-> <<>>,
     first_read |-> <<>>, shadow_action |-> "none",
     hook |-> [handler |-> "none", input |-> "none", context |-> "none",
               exit_code |-> 0 - 1, response |-> "none"],
     stop |-> [agent |-> "", step_id |-> "", retry |-> FALSE]]

Init ==
    /\ schema = DefaultSchema
    /\ events = <<>>
    /\ completion = NoCompletion
    /\ cv_pc = "idle"
    /\ raw_events = <<>>
    /\ audit_log = <<>>
    /\ last = Idle
    /\ prev_blocked = FALSE
    /\ integrity = NoIntegrityRun
    /\ session = NoSession

\* The sub-agent appends an entry to execution-log.yaml
AgentLogsPhase ==
    /\ ~last.ran
    /\ Len(raw_events) < MaxTrace
    /\ \E e \in RawEntries : raw_events' = Append(raw_events, e)
    /\ UNCHANGED <<schema, events, completion, cv_pc, audit_log, last,
                   prev_blocked, integrity, session>>

\* The effects of one service.validate(context): the trace as the corrector
\* left it, the audit events, and the record of the run
HookRun(inv, out, first_read, shadow_action) ==
    /\ raw_events' = out.raw
    /\ audit_log' = out.audit
    /\ last' = [ran |-> TRUE, inv |-> inv, decision |-> out.decision,
                raised |-> out.raised, calls |-> out.calls,
                completion |-> out.completion, validated |-> out.validated,
                first_read |-> first_read, shadow_action |-> shadow_action,
                hook |-> handle_subagent_stop("des_step", out),
                stop |-> [agent |-> STEP, step_id |-> STEP,
                          retry |-> prev_blocked]]

\* The collaborators' answers in a hook run
IoOf(inv) == Io(inv.fault, inv.commit_verified, inv.out_of_scope_files)

\* The SubagentStop hook fires: service.validate(context)
HookValidate ==
    /\ ~last.ran
    /\ \E inv \in Invocations :
         HookRun(inv,
                 SubagentStopValidate(Context(inv), Config(inv), raw_events,
                                      NOW, IoOf(inv)),
                 parse_many(raw_events, STEP),
                 SubagentStopValidate(Context(inv),
                     [Config(inv) EXCEPT !.integrity_validator = FALSE],
                     raw_events, NOW, IoOf(inv)).decision.action)
    /\ UNCHANGED <<schema, events, completion, cv_pc, prev_blocked, integrity,
                   session>>

\* The hook process ends; the host has the decision
HookReturn ==
    /\ last.ran
    /\ prev_blocked' = (last.decision.action = "block")
    /\ last' = Idle
    /\ audit_log' = <<>>
    /\ UNCHANGED <<schema, events, completion, cv_pc, raw_events, integrity, session>>

\* The SubagentStop hook fires and returns before it reaches the service
HookWithoutService ==
    /\ ~last.ran
    /\ \E input \in {"empty_stdin", "json_parse_error", "missing_fields",
                      "non_des_agent"} :
         last' = [Idle EXCEPT !.ran = TRUE,
                              !.hook = handle_subagent_stop(input,
                                           Early(NoDecision, <<>>, raw_events))]
    /\ UNCHANGED <<schema, events, completion, cv_pc, raw_events, audit_log,
                   prev_blocked, integrity, session>>

Next == AgentLogsPhase \/ HookValidate \/ HookWithoutService \/ HookReturn

Spec == Init /\ [][Next]_vars

-----------------------------------------------------------------------------
(* Specification SpecPE: PhaseEventParser on the entries an execution log  *)
(* may hold.  cv_pc is the parser call made last: parse_auto (on the last  *)
(* entry), parse_all, or, for parse_many, the step_id it was called with;  *)
(* events is what the call returned.                                       *)

\* The entries of the `events` list of execution-log.yaml: pipe strings of
\* 1, 4, 5, 6 and 7 fields, mappings with and without the required keys,
\* and a value that is neither a str nor a dict (fmt "other")
PEEntries ==
    { Pipe(STEP, "GREEN", "EXECUTED", PASS, T_OK),
      Pipe(OTHER_STEP, "COMMIT", "SKIPPED", <<"NOT_APPLICABLE">>, T_START),
      [Pipe(STEP, "GREEN", "EXECUTED", PASS, T_OK) EXCEPT
          !.nf = 7, !.tu = RawStat(TRUE, 12), !.tk = RawStat(TRUE, 3400)],
      [Pipe(STEP, "COMMIT", "EXECUTED", PASS, T_OK) EXCEPT
          !.nf = 7, !.tu = RawStat(TRUE, 12), !.tk = RawStat(FALSE, 0)],
      [Pipe(OTHER_STEP, "GREEN", "EXECUTED", FAIL, T_OK) EXCEPT
          !.nf = 7, !.tu = RawStat(FALSE, 0), !.tk = RawStat(TRUE, 3400)],
      [Pipe(STEP, "GREEN", "EXECUTED", PASS, T_OK) EXCEPT
          !.nf = 6, !.tu = RawStat(TRUE, 12)],
      [Pipe(STEP, "GREEN", "EXECUTED", PASS, NoTime) EXCEPT !.nf = 4],
      [Pipe("", "", "", <<>>, NoTime) EXCEPT !.nf = 1],
      Dict(STEP, "COMMIT", "EXECUTED", PASS, T_OK),
      [Dict(OTHER_STEP, "GREEN", "EXECUTED", PASS, T_START) EXCEPT
          !.keys = @ \cup {"tu", "tk"},
          !.tu = RawStat(TRUE, 7), !.tk = RawStat(TRUE, 900)],
      [Dict(STEP, "GREEN", "SKIPPED", <<"DEFERRED">>, T_OK) EXCEPT
          !.keys = @ \cup {"tu"}, !.tu = RawStat(FALSE, 0)],
      [Dict(STEP, "GREEN", "EXECUTED", PASS, NoTime) EXCEPT
          !.keys = @ \ {"t"}],
      [Dict("", "GREEN", "EXECUTED", PASS, T_OK) EXCEPT
          !.keys = @ \ {"sid"}, !.tu = RawStat(TRUE, 7)],
      [Pipe("", "", "", <<>>, NoTime) EXCEPT !.fmt = "other", !.nf = 0] }

\* An entry is appended to the events list
EntryAppended ==
    /\ Len(raw_events) < MaxTrace
    /\ \E e \in PEEntries : raw_events' = Append(raw_events, e)
    /\ events' = <<>>
    /\ cv_pc' = "idle"
    /\ UNCHANGED <<schema, completion, audit_log, last, prev_blocked,
                   integrity, session>>

\* parser.parse_auto(entry) on the entry appended last
ParseAuto ==
    /\ raw_events # <<>>
    /\ events' = parse_auto(raw_events[Len(raw_events)])
    /\ cv_pc' = "parse_auto"
    /\ UNCHANGED <<schema, completion, raw_events, audit_log, last,
                   prev_blocked, integrity, session>>

\* parser.parse_all(event_entries), as read_all_events calls it
ParseAll ==
    /\ events' = parse_all(raw_events)
    /\ cv_pc' = "parse_all"
    /\ UNCHANGED <<schema, completion, raw_events, audit_log, last,
                   prev_blocked, integrity, session>>

\* parser.parse_many(event_entries, step_id), as read_step_events calls it
ParseMany ==
    /\ \E step_id \in Range(StepIds) :
         /\ events' = parse_many(raw_events, step_id)
         /\ cv_pc' = step_id
    /\ UNCHANGED <<schema, completion, raw_events, audit_log, last,
                   prev_blocked, integrity, session>>

NextPE == EntryAppended \/ ParseAuto \/ ParseAll \/ ParseMany

SpecPE == Init /\ [][NextPE]_vars

-----------------------------------------------------------------------------
(* Specification SpecPT: the audit log of the day, to which the            *)
(* SubagentStop hook runs have appended their outcomes, and the            *)
(* PostToolUse hook that reads it when the Task tool returns               *)

\* The stop outcomes and other events logged before the PostToolUse hook
MaxAudit == 3

\* The line of audit-YYYY-MM-DD.log for an event logged `tick` after the
\* last line of the log: the event and its timestamp
AuditLine(log, event, tick) ==
    [timestamp |-> (IF log = <<>> THEN 0 ELSE log[Len(log)].timestamp) + tick]
    @@ event

\* JsonlAuditLogReader.read_last_entry(event_type=...): <<>> is None
read_last_entry(log, event_type) ==
    IF \E i \in DOMAIN log : log[i].event_type = event_type
    THEN << log[CHOOSE i \in DOMAIN log :
                   /\ log[i].event_type = event_type
                   /\ \A j \in DOMAIN log :
                         log[j].event_type = event_type => j <= i] >>
    ELSE <<>>

\* check_completion_status that returns None whenever is_des_task is false
check_completion_status_des_only(is_des_task, passed_entry, failed_entry) ==
    IF ~is_des_task THEN "None"
    ELSE IF /\ passed_entry # <<>>
            /\ \/ failed_entry = <<>>
               \/ passed_entry[1].timestamp >= failed_entry[1].timestamp
    THEN "continuation"
    ELSE IF /\ failed_entry # <<>>
            /\ "allowed_despite_failure" \in failed_entry[1].keys
            /\ failed_entry[1].allowed_despite_failure
    THEN "failure_with_marker_reminder"
    ELSE "None"

\* PostToolUseService.check_completion_status, given the two entries read:
\* "None", or the additionalContext it builds.  The timestamp of an entry
\* that is None is "", which no timestamp precedes.
check_completion_status(is_des_task, passed_entry, failed_entry) ==
    IF /\ passed_entry # <<>>
       /\ \/ failed_entry = <<>>
          \/ passed_entry[1].timestamp >= failed_entry[1].timestamp
    THEN IF is_des_task THEN "continuation" ELSE "None"
    ELSE IF /\ failed_entry # <<>>
            /\ "allowed_despite_failure" \in failed_entry[1].keys
            /\ failed_entry[1].allowed_despite_failure
    THEN \* _build_failure_context
         IF is_des_task THEN "failure_with_marker_reminder" ELSE "failure"
    ELSE "None"

\* A hook run appends an event to the audit log; two events may carry the
\* same timestamp
AuditEntryLogged ==
    /\ ~last.ran
    /\ Len(audit_log) < MaxAudit
    /\ \E tick \in {0, 1} :
       \E event \in { _log_passed(Context(Idle.inv)),
                      _log_failed(Context(Idle.inv), <<>>, FALSE),
                      _log_failed(Context(Idle.inv), <<>>, TRUE),
                      _log_commit_verified(Context(Idle.inv)) } :
         audit_log' = Append(audit_log, AuditLine(audit_log, event, tick))
    /\ UNCHANGED <<schema, events, completion, cv_pc, raw_events, last,
                   prev_blocked, integrity, session>>

\* The PostToolUse hook fires: handle_post_tool_use.  It returns 0 and
\* prints the additionalContext of check_completion_status, or {} when that
\* is None or stdin gave no hook input, and logs its own events.
HandlePostToolUse ==
    /\ ~last.ran
    /\ \E input \in {"empty_stdin", "json_parse_error", "non_des_task",
                      "des_task"} :
         LET context ==
                 IF input \in {"empty_stdin", "json_parse_error"} THEN "None"
                 ELSE check_completion_status(
                          input = "des_task",
                          read_last_entry(audit_log,
                                          "HOOK_SUBAGENT_STOP_PASSED"),
                          read_last_entry(audit_log,
                                          "HOOK_SUBAGENT_STOP_FAILED"))
         IN /\ last' = [Idle EXCEPT
                          !.ran = TRUE,
                          !.hook = [handler |-> "post_tool_use",
                                    input |-> input, context |-> context,
                                    exit_code |-> 0,
                                    response |-> IF context = "None"
                                                 THEN "none"
                                                 ELSE "additionalContext"]]
            /\ audit_log' =
                  audit_log
                  \o << AuditLine(audit_log,
                          AuditEvent(IF input \in {"empty_stdin",
                                                   "json_parse_error"}
                                     THEN "HOOK_PROTOCOL_ANOMALY"
                                     ELSE "HOOK_INVOKED", {}, FALSE, <<>>),
                          1) >>
                  \o (IF input \in {"empty_stdin", "json_parse_error"}
                      THEN <<>>
                      ELSE << AuditLine(audit_log,
                                AuditEvent(IF context = "None"
                                    THEN "HOOK_POST_TOOL_USE_PASSTHROUGH"
                                    ELSE "HOOK_POST_TOOL_USE_INJECTED",
                                    {}, FALSE, <<>>),
                                1) >>)
                  \o << AuditLine(audit_log,
                          AuditEvent("HOOK_COMPLETED", {}, FALSE, <<>>), 1) >>
    /\ UNCHANGED <<schema, events, completion, cv_pc, raw_events,
                   prev_blocked, integrity, session>>

NextPT == AuditEntryLogged \/ HandlePostToolUse

SpecPT == Init /\ [][NextPT]_vars

-----------------------------------------------------------------------------
(* Specification SpecAW: as Spec, with an audit writer whose log_event     *)
(* may raise (JsonlAuditLogWriter.log_event opens and appends to a file)   *)

\* The audit_writer.log_event calls of one run that may be the one to raise
MaxLogEvents == 3

\* The SubagentStop hook fires and the k-th log_event call, if the run
\* gets that far, raises; shadow_action keeps the action of the same run
\* with a writer that never raises
HookValidateWriterFails ==
    /\ ~last.ran
    /\ \E inv \in Invocations, k \in 1..MaxLogEvents :
         HookRun(inv,
                 log_event_raises(
                     SubagentStopValidate(Context(inv), Config(inv),
                                          raw_events, NOW, IoOf(inv)),
                     raw_events, k),
                 parse_many(raw_events, STEP),
                 SubagentStopValidate(Context(inv), Config(inv), raw_events,
                                      NOW, IoOf(inv)).decision.action)
    /\ UNCHANGED <<schema, events, completion, cv_pc, prev_blocked, integrity,
                   session>>

NextAW == AgentLogsPhase \/ HookValidateWriterFails \/ HookReturn

SpecAW == Init /\ [][NextAW]_vars

-----------------------------------------------------------------------------
(* Specification SpecCV: StepCompletionValidator.validate as a pure        *)
(* function of a bounded event list of one step                            *)

CVEvent(p, s, d) == PhaseEvent(STEP, p, s, d, T_OK, NoStat, NoStat)

CVEvents ==
    { CVEvent("GREEN", "EXECUTED", PASS),
      CVEvent("GREEN", "EXECUTED", <<"DONE">>),
      CVEvent("GREEN", "SKIPPED", <<"NOT_APPLICABLE", ": no change">>),
      CVEvent("GREEN", "SKIPPED", <<"DEFERRED", ": blocked">>),
      CVEvent("GREEN", "SKIPPED", <<"DEFERRED", "_APPROVED", ": later">>),
      CVEvent("GREEN", "IN_PROGRESS", <<>>),
      CVEvent("COMMIT", "EXECUTED", PASS),
      CVEvent("COMMIT", "EXECUTED", FAIL),
      CVEvent("COMMIT", "SKIPPED", <<"because">>),
      CVEvent("COMMIT", "NOT_EXECUTED", <<>>),
      CVEvent("COMMIT", "BOGUS", <<>>),
      CVEvent("REFACTOR", "EXECUTED", PASS) }

InitCV ==
    /\ schema \in Schemas
    /\ events = <<>>
    /\ completion = NoCompletion
    /\ cv_pc = "idle"
    /\ raw_events = <<>>
    /\ audit_log = <<>>
    /\ last = Idle
    /\ prev_blocked = FALSE
    /\ integrity = NoIntegrityRun
    /\ session = NoSession

\* The caller collects one more event of the step before validating
CollectEvent ==
    /\ cv_pc = "idle"
    /\ Len(events) < MaxEvents
    /\ \E e \in CVEvents : events' = Append(events, e)
    /\ UNCHANGED <<schema, completion, cv_pc, raw_events, audit_log, last,
                   prev_blocked, integrity, session>>

\* completion = self._completion_validator.validate(events)
CompletionValidate ==
    /\ cv_pc = "idle"
    /\ cv_pc' = "done"
    /\ completion' = validate(events)
    /\ UNCHANGED <<schema, events, raw_events, audit_log, last, prev_blocked,
                   integrity, session>>

NextCV == CollectEvent \/ CompletionValidate

SpecCV == InitCV /\ [][NextCV]_vars

-----------------------------------------------------------------------------
(* Specification SpecIC: _check_and_correct_integrity on a bounded trace,  *)
(* then LogIntegrityValidator.validate again on the trace it left          *)

T_SKEW == Aware(T_START.v - _TOLERANCE)   \* exactly 60 s before the task start
T_BAD == [k |-> "bad", v |-> 0]            \* text fromisoformat rejects

\* A str entry with fewer than five fields: PhaseEventParser drops it
Garbage ==
    [fmt |-> "pipe", nf |-> 1, keys |-> {}, sid |-> "", p |-> "", s |-> "",
     d |-> <<>>, t |-> NoTime, tu |-> NoRawStat, tk |-> NoRawStat]

\* What the trace may hold when the integrity check runs
ICEntries ==
    { Pipe(STEP, "GREEN", "EXECUTED", PASS, T_FUTURE),
      Dict(STEP, "GREEN", "EXECUTED", PASS, T_FUTURE),
      Pipe(STEP, "COMMIT", "EXECUTED", PASS, T_PRE),
      Pipe(STEP, "COMMIT", "EXECUTED", PASS, T_SKEW),
      Pipe(STEP, "GREEN", "EXECUTED", PASS, NOW),
      Pipe(STEP, "COMMIT", "EXECUTED", PASS, T_START),
      Pipe(OTHER_STEP, "GREEN", "EXECUTED", PASS, T_FUTURE),
      Pipe(OTHER_STEP, "GREEN", "EXECUTED", PASS, T_PRE),
      Pipe("01-03", "GREEN", "EXECUTED", PASS, T_START),
      Garbage,
      Pipe(STEP, "GREEN", "EXECUTED", PASS, T_BAD),
      Pipe(STEP, "GRREEN", "EXECUTED", PASS, T_OK),
      Pipe(STEP, "GREEN", "EXECUTED", PASS, T_NAIVE) }

\* context.task_start_time: the signal's created_at, "" without signal, or
\* a text fromisoformat rejects
ICStarts == {T_START, NoTime, T_BAD}

\* task_start_time and fault of the runs: every start with reliable
\* collaborators, every fault with the signal's start
ICRuns ==
    {<<start, "none">> : start \in ICStarts}
    \cup {<<T_START, fault>> : fault \in IntegrityFaults}

\* The hook run around the integrity check: production wiring
ICInvocation(start, fault) ==
    Invocation(FALSE, "/repo", TRUE, TRUE, TRUE, start, fault, <<>>)

InitIC ==
    /\ schema = DefaultSchema
    /\ events = <<>>
    /\ completion = NoCompletion
    /\ cv_pc = "idle"
    /\ raw_events = <<>>
    /\ audit_log = <<>>
    /\ last = Idle
    /\ prev_blocked = FALSE
    /\ integrity = NoIntegrityRun
    /\ session = NoSession

\* An entry is appended to execution-log.yaml before the hook fires
TraceEntryWritten ==
    /\ integrity.pc = "idle"
    /\ Len(raw_events) < MaxTrace
    /\ \E e \in ICEntries : raw_events' = Append(raw_events, e)
    /\ UNCHANGED <<schema, events, completion, cv_pc, audit_log, last,
                   prev_blocked, integrity, session>>

\* The effects of one _check_and_correct_integrity(context)
IntegrityRun(start, fault, out) ==
    /\ raw_events' = out.raw
    /\ audit_log' = out.audit
    /\ integrity' = [pc |-> "done", task_start_time |-> start,
                     fault |-> fault, before |-> raw_events, out |-> out,
                     second |-> IntegrityResult(FALSE, <<>>, <<>>)]

\* self._check_and_correct_integrity(context)
CheckAndCorrectIntegrity ==
    /\ integrity.pc = "idle"
    /\ \E run \in ICRuns :
         IntegrityRun(run[1], run[2],
             _check_and_correct_integrity(
                 Context(ICInvocation(run[1], run[2])),
                 Config(ICInvocation(run[1], run[2])),
                 raw_events, NOW, IoOf(ICInvocation(run[1], run[2]))))
    /\ UNCHANGED <<schema, events, completion, cv_pc, last, prev_blocked, session>>

\* LogIntegrityValidator.validate once more, on the trace as corrected, with
\* the same now and task_start_time
ValidateAgain ==
    /\ integrity.pc = "done"
    /\ integrity' =
          [integrity EXCEPT
              !.pc = "again",
              !.second = integrity_validate(STEP, parse_all(raw_events),
                                            integrity.task_start_time, NOW)]
    /\ UNCHANGED <<schema, events, completion, cv_pc, raw_events, audit_log,
                   last, prev_blocked, session>>

NextIC == TraceEntryWritten \/ CheckAndCorrectIntegrity \/ ValidateAgain

SpecIC == InitIC /\ [][NextIC]_vars

-----------------------------------------------------------------------------
(* Specification SpecSG: the hooks of claude_code_hook_adapter around two  *)
(* DES tasks of one deliver session: pre-tool-use, subagent-stop and       *)
(* pre-write, with the signal files they share                             *)

\* What execution-log.yaml holds when the hooks fire
SGTraces ==
    { <<>>,
      << Dict(STEP, "GREEN", "EXECUTED", PASS, T_PRE),
         Pipe(OTHER_STEP, "GREEN", "EXECUTED", PASS, T_OK) >>,
      << Pipe(STEP, "GREEN", "EXECUTED", PASS, T_FUTURE),
         Pipe(STEP, "COMMIT", "EXECUTED", PASS, T_OK) >>,
      << Pipe(STEP, "GREEN", "EXECUTED", PASS, T_OK),
         Pipe(STEP, "COMMIT", "EXECUTED", PASS, T_OK),
         Pipe(OTHER_STEP, "GREEN", "EXECUTED", PASS, T_OK),
         Pipe(OTHER_STEP, "COMMIT", "EXECUTED", PASS, T_OK) >> }

InitSG ==
    /\ schema = DefaultSchema
    /\ events = <<>>
    /\ completion = NoCompletion
    /\ cv_pc = "idle"
    /\ raw_events \in SGTraces
    /\ audit_log = <<>>
    /\ last = Idle
    /\ prev_blocked = FALSE
    /\ integrity = NoIntegrityRun
    /\ session \in {[NoSession EXCEPT !.deliver = d] : d \in BOOLEAN}

\* handle_pre_tool_use for a Task: a DES-validated task that the service
\* allows gets its signal files; a blocked task and a task without DES
\* markers leave the files alone
HandlePreToolUse ==
    /\ ~last.ran
    /\ \E step_id \in {STEP, OTHER_STEP},
          task \in {"des_allowed", "des_blocked", "non_des"} :
         session' =
            IF task = "des_allowed"
            THEN [session EXCEPT
                    !.namespaced =
                        _create_des_task_signal(session, step_id).namespaced,
                    !.legacy =
                        _create_des_task_signal(session, step_id).legacy,
                    !.active = @ \cup {step_id},
                    !.running = @ \cup {step_id},
                    !.dispatched = @ \cup {step_id},
                    !.denied = {}]
            ELSE [session EXCEPT !.denied = {}]
    /\ UNCHANGED <<schema, events, completion, cv_pc, raw_events, audit_log,
                   last, prev_blocked, integrity>>

\* An agent whose stop was blocked goes on and logs its COMMIT phase, with
\* a timestamp ahead of the clock
AgentLogsCommit ==
    /\ ~last.ran
    /\ \E agent \in session.denied :
         /\ \A i \in DOMAIN raw_events :
               ~(raw_events[i].sid = agent /\ raw_events[i].p = "COMMIT")
         /\ raw_events' = Append(raw_events,
                             Pipe(agent, "COMMIT", "EXECUTED", PASS, T_FUTURE))
    /\ UNCHANGED <<schema, events, completion, cv_pc, audit_log, last,
                   prev_blocked, integrity, session>>

\* A subagent-stop hook that reached service.validate for step_id, fired by
\* the stop of `agent`: the signal files as the hook left them, the trace
\* and audit events of the run, and the record of the run
ServiceRun(agent, step_id, inv, out, files, hook) ==
    /\ raw_events' = out.raw
    /\ audit_log' = out.audit
    /\ last' = [ran |-> TRUE, inv |-> inv, decision |-> out.decision,
                raised |-> out.raised, calls |-> out.calls,
                completion |-> out.completion, validated |-> out.validated,
                first_read |-> parse_many(raw_events, step_id),
                shadow_action |-> "none", hook |-> hook,
                stop |-> [agent |-> agent, step_id |-> step_id,
                          retry |-> agent \in session.denied]]
    /\ session' =
          [session EXCEPT
              !.namespaced = files.namespaced,
              !.legacy = files.legacy,
              !.running = @ \ {agent},
              !.active = IF out.decision.action = "allow"
                         THEN @ \ {agent} ELSE @,
              !.denied = IF out.decision.action = "block"
                         THEN @ \cup ({agent} \cap session.active)
                         ELSE @ \ {agent}]
    /\ UNCHANGED <<schema, events, completion, cv_pc, prev_blocked, integrity>>

\* The hook run of a subagent-stop: production wiring, task_start_time the
\* created_at of the signal that was read, "" without signal
SignalInvocation(signal, sha) ==
    Invocation(sha, "/repo", TRUE, TRUE, TRUE,
               IF signal = "" THEN NoTime ELSE T_START, "none", <<>>)

\* service.validate for step_id in the hook run inv
ValidateStep(step_id, inv) ==
    SubagentStopValidate([Context(inv) EXCEPT !.step_id = step_id],
                         Config(inv), raw_events, NOW, IoOf(inv))

\* handle_subagent_stop for a DES agent: the step comes from the agent's
\* transcript, the signal is read, then removed, then the service is called
HandleSubagentStop ==
    /\ ~last.ran
    /\ \E agent \in session.active, sha \in BOOLEAN :
         ServiceRun(agent, agent,
             SignalInvocation(_read_des_task_signal(session, agent), sha),
             ValidateStep(agent,
                 SignalInvocation(_read_des_task_signal(session, agent), sha)),
             _remove_des_task_signal(session, agent),
             handle_subagent_stop("des_step",
                 ValidateStep(agent,
                     SignalInvocation(_read_des_task_signal(session, agent),
                                      sha))))

\* handle_pre_write for a Write or Edit
HandlePreWrite ==
    /\ ~last.ran
    /\ \E input \in {"write", "empty_stdin", "json_parse_error"},
          file_path \in WritePaths :
         last' = [Idle EXCEPT
                    !.ran = TRUE,
                    !.hook = handle_pre_write(input, file_path, session)]
    /\ UNCHANGED <<schema, events, completion, cv_pc, raw_events, audit_log,
                   prev_blocked, integrity, session>>

NextSG ==
    \/ HandlePreToolUse
    \/ AgentLogsCommit
    \/ HandleSubagentStop
    \/ HookWithoutService
    \/ HandlePreWrite
    \/ HookReturn

SpecSG == InitSG /\ [][NextSG]_vars

-----------------------------------------------------------------------------
(* Specification SpecCP: the hooks of copilot_hook_adapter around the same *)
(* two DES tasks; subagentStop carries no transcript, the step comes from  *)
(* the signal file                                                         *)

\* handle_pre_tool_use of copilot_hook_adapter
CopilotPreToolUse ==
    /\ ~last.ran
    /\ \E step_id \in {STEP, OTHER_STEP},
          task \in {"des_allowed", "des_blocked", "non_des"} :
         session' =
            IF task = "des_allowed"
            THEN [session EXCEPT
                    !.namespaced =
                        _create_des_task_signal(session, step_id).namespaced,
                    !.legacy =
                        _create_des_task_signal(session, step_id).legacy,
                    !.active = @ \cup {step_id},
                    !.running = @ \cup {step_id},
                    !.dispatched = @ \cup {step_id},
                    !.denied = {}]
            ELSE [session EXCEPT !.denied = {}]
    /\ UNCHANGED <<schema, events, completion, cv_pc, raw_events, audit_log,
                   last, prev_blocked, integrity>>

\* What handle_subagent_stop of copilot_hook_adapter returns and prints:
\* always exit 0, deny in the JSON, approve on any exception
CopilotResponse(input, out) ==
    [handler |-> "subagent_stop", input |-> input, context |-> "none",
     exit_code |-> 0,
     response |-> IF input = "no_signal" \/ out.raised THEN "allow"
                  ELSE out.decision.action]

\* handle_subagent_stop of copilot_hook_adapter, fired by the stop of a DES
\* agent or of an agent without DES task: _read_des_task_signal() without
\* arguments reads the legacy singleton; without signal the agent is
\* approved, with one the signal's step is validated
CopilotSubagentStop ==
    /\ ~last.ran
    /\ \E agent \in session.active \cup {"non_des"}, sha \in BOOLEAN :
         IF _read_des_task_signal(session, "") = ""
         THEN /\ last' = [Idle EXCEPT
                             !.ran = TRUE,
                             !.hook = CopilotResponse("no_signal",
                                 Early(NoDecision, <<>>, raw_events)),
                             !.stop = [agent |-> agent, step_id |-> "",
                                       retry |-> agent \in session.denied]]
              /\ session' = [session EXCEPT
                                !.running = @ \ {agent},
                                !.active = @ \ {agent},
                                !.denied = @ \ {agent}]
              /\ UNCHANGED <<schema, events, completion, cv_pc, raw_events,
                             audit_log, prev_blocked, integrity>>
         ELSE ServiceRun(agent, _read_des_task_signal(session, ""),
                  SignalInvocation(_read_des_task_signal(session, ""), sha),
                  ValidateStep(_read_des_task_signal(session, ""),
                      SignalInvocation(_read_des_task_signal(session, ""),
                                       sha)),
                  _remove_des_task_signal(session,
                      _read_des_task_signal(session, "")),
                  CopilotResponse("signal",
                      ValidateStep(_read_des_task_signal(session, ""),
                          SignalInvocation(
                              _read_des_task_signal(session, ""), sha))))

NextCP ==
    \/ CopilotPreToolUse
    \/ AgentLogsCommit
    \/ CopilotSubagentStop
    \/ HookReturn

SpecCP == InitSG /\ [][NextCP]_vars

-----------------------------------------------------------------------------
(* Properties of StepCompletionValidator.validate (specification SpecCV)   *)

\* events[i] is the last event of its phase in the list
IsLastOfPhase(evs, i) ==
    \A j \in DOMAIN evs : evs[j].phase_name = evs[i].phase_name => j <= i

\* The list that keeps only the last event of each phase_name, in trace order
RECURSIVE KeepFrom(_, _)
KeepFrom(evs, i) ==
    IF i > Len(evs) THEN <<>>
    ELSE (IF IsLastOfPhase(evs, i) THEN <<evs[i]>> ELSE <<>>)
         \o KeepFrom(evs, i + 1)

LastOfEachPhase(evs) == KeepFrom(evs, 1)

\* Some error message of the result names the phase
HasErrorFor(result, phase) ==
    \E k \in DOMAIN result.error_messages :
        result.error_messages[k].phase = phase

\* C4: if the last event of a required phase has a status other than
\* EXECUTED or SKIPPED (IN_PROGRESS and NOT_EXECUTED included), the result
\* records an error message for that phase and is not valid.
C4_UnfinishedPhaseIsInvalid ==
    cv_pc = "done" =>
        \A i \in DOMAIN events :
            ( /\ IsLastOfPhase(events, i)
              /\ events[i].phase_name \in Range(TddPhases)
              /\ events[i].status \notin {"EXECUTED", "SKIPPED"} )
            => ( /\ ~completion.is_valid
                 /\ HasErrorFor(completion, events[i].phase_name) )

\* C9: validate returns on an event list what it returns on the list that
\* keeps only the last event of each phase_name.
C9_LastOccurrenceWins ==
    cv_pc = "done" => completion = validate(LastOfEachPhase(events))

\* A phase logged twice, first with an outcome that fails the step and last
\* with one that passes it, in a list that validates
C9_Witness ==
    /\ cv_pc = "done"
    /\ completion.is_valid
    /\ \E i, j \in DOMAIN events :
          /\ i < j
          /\ events[i].phase_name = events[j].phase_name
          /\ ~validate(<<events[i]>> \o SubSeq(events, j + 1, Len(events))).is_valid

\* C10: missing_phases is the schema phases that have no event in the list,
\* in schema order, whether the list is empty or not.
C10_MissingPhasesExact ==
    cv_pc = "done" =>
        completion.missing_phases =
            SelectSeq(TddPhases,
                      LAMBDA p : \A i \in DOMAIN events : events[i].phase_name # p)

\* A non-empty list with an unfinished schema phase, a name outside the
\* schema and one schema phase absent
C10_Witness ==
    /\ cv_pc = "done"
    /\ \E i \in DOMAIN events : events[i].phase_name \notin Range(TddPhases)
    /\ \E i \in DOMAIN events : events[i].status = "IN_PROGRESS"
    /\ completion.missing_phases = <<"COMMIT">>

\* C11: if the last event of a schema phase is EXECUTED and either the phase
\* is terminal and the outcome is FAIL, or the outcome is neither PASS nor
\* FAIL, the phase is in incomplete_phases and the result is not valid,
\* whatever the other events are.
C11_TerminalFailIsIncomplete ==
    cv_pc = "done" =>
        \A i \in DOMAIN events :
            ( /\ IsLastOfPhase(events, i)
              /\ events[i].phase_name \in Range(TddPhases)
              /\ events[i].status = "EXECUTED"
              /\ \/ /\ events[i].phase_name \in Range(TerminalPhases)
                    /\ events[i].outcome = FAIL
                 \/ events[i].outcome \notin {PASS, FAIL} )
            => ( /\ events[i].phase_name \in Range(completion.incomplete_phases)
                 /\ ~completion.is_valid )

\* Every other phase executed with PASS, the terminal phase executed with
\* FAIL after an earlier PASS: the terminal phase alone is incomplete
C11_Witness ==
    /\ cv_pc = "done"
    /\ schema = DefaultSchema
    /\ events = << CVEvent("COMMIT", "EXECUTED", PASS),
                   CVEvent("GREEN", "EXECUTED", PASS),
                   CVEvent("COMMIT", "EXECUTED", FAIL) >>
    /\ completion.incomplete_phases = <<"COMMIT">>
    /\ ~completion.is_valid

\* The skip reason starts with one of the prefixes
HasPrefixIn(outcome, prefixes) ==
    \E k \in DOMAIN prefixes :
        /\ Len(prefixes[k]) <= Len(outcome)
        /\ \A n \in 1..Len(prefixes[k]) : outcome[n] = prefixes[k][n]

\* C12: if the last event of a schema phase is SKIPPED, the phase is in
\* invalid_skips and the result is not valid whenever the outcome starts with
\* a blocking prefix (whether or not it also starts with a valid prefix) and
\* whenever it starts with no valid prefix; the skip is accepted (no
\* invalid_skips entry, no error message for the phase) only if the outcome
\* starts with a valid prefix and with no blocking prefix.
C12_BlockingSkipIsInvalid ==
    cv_pc = "done" =>
        \A i \in DOMAIN events :
            ( /\ IsLastOfPhase(events, i)
              /\ events[i].phase_name \in Range(TddPhases)
              /\ events[i].status = "SKIPPED" )
            => IF \/ HasPrefixIn(events[i].outcome, schema.blocking_skip_prefixes)
                  \/ ~HasPrefixIn(events[i].outcome, schema.valid_skip_prefixes)
               THEN /\ events[i].phase_name \in Range(completion.invalid_skips)
                    /\ ~completion.is_valid
               ELSE /\ events[i].phase_name \notin Range(completion.invalid_skips)
                    /\ ~HasErrorFor(completion, events[i].phase_name)

\* A skip reason that starts with a valid and with a blocking prefix, no
\* phase missing or incomplete: the skipped phase alone fails the step
C12_Witness ==
    /\ cv_pc = "done"
    /\ \E i \in DOMAIN events :
          /\ events[i].status = "SKIPPED"
          /\ HasPrefixIn(events[i].outcome, schema.blocking_skip_prefixes)
          /\ HasPrefixIn(events[i].outcome, schema.valid_skip_prefixes)
          /\ completion.invalid_skips = <<events[i].phase_name>>
    /\ completion.missing_phases = <<>>
    /\ completion.incomplete_phases = <<>>
    /\ ~completion.is_valid

\* How many of missing_phases, incomplete_phases, invalid_skips are non-empty
Populated(result) ==
    Cardinality({k \in {"missing_phases", "incomplete_phases", "invalid_skips"} :
                    result[k] # <<>>})

\* C13: for an invalid result on a non-empty event list, error_type is
\* ABANDONED_PHASE, INCOMPLETE_PHASE or INVALID_SKIP exactly when
\* missing_phases, incomplete_phases or invalid_skips respectively is the only
\* non-empty one of the three lists, and MULTIPLE_ERRORS exactly when two or
\* more of them are non-empty; a valid result has error_type None and all
\* lists empty.
C13_ErrorTypeClassifiesLists ==
    (cv_pc = "done" /\ events # <<>>) =>
        IF completion.is_valid
        THEN /\ completion.error_type = "None"
             /\ Populated(completion) = 0
             /\ completion.error_messages = <<>>
             /\ completion.recovery_suggestions = <<>>
        ELSE /\ completion.error_type = "ABANDONED_PHASE"
                    <=> ( Populated(completion) = 1
                          /\ completion.missing_phases # <<>> )
             /\ completion.error_type = "INCOMPLETE_PHASE"
                    <=> ( Populated(completion) = 1
                          /\ completion.incomplete_phases # <<>> )
             /\ completion.error_type = "INVALID_SKIP"
                    <=> ( Populated(completion) = 1
                          /\ completion.invalid_skips # <<>> )
             /\ completion.error_type = "MULTIPLE_ERRORS"
                    <=> Populated(completion) >= 2

\* C14: on zero events the result is not valid, its error_type is
\* SILENT_COMPLETION and missing_phases is the whole phase sequence of the
\* schema, whatever the schema's phase count.
C14_ZeroEventsIsSilentCompletion ==
    (cv_pc = "done" /\ events = <<>>) =>
        /\ ~completion.is_valid
        /\ completion.error_type = "SILENT_COMPLETION"
        /\ completion.missing_phases = schema.tdd_phases

\* Zero events validated under a schema of three phases
C14_Witness ==
    /\ cv_pc = "done"
    /\ events = <<>>
    /\ Len(schema.tdd_phases) = 3
    /\ Len(completion.missing_phases) = 3

\* No element occurs twice in the list
NoDuplicates(l) ==
    \A i, j \in DOMAIN l : l[i] = l[j] => i = j

\* C40: in every CompletionResult each phase name occurs at most once
\* within missing_phases, within incomplete_phases and within invalid_skips,
\* and no phase occurs in more than one of the three lists.
C40_PhaseListedOnce ==
    cv_pc = "done" =>
        /\ NoDuplicates(completion.missing_phases)
        /\ NoDuplicates(completion.incomplete_phases)
        /\ NoDuplicates(completion.invalid_skips)
        /\ Range(completion.missing_phases)
              \cap Range(completion.incomplete_phases) = {}
        /\ Range(completion.missing_phases)
              \cap Range(completion.invalid_skips) = {}
        /\ Range(completion.incomplete_phases)
              \cap Range(completion.invalid_skips) = {}

-----------------------------------------------------------------------------
(* Properties of SubagentStopService.validate (specification Spec)         *)

\* The HOOK_SUBAGENT_STOP_FAILED events the hook run emitted
FailedEvents ==
    {i \in DOMAIN audit_log :
        audit_log[i].event_type = "HOOK_SUBAGENT_STOP_FAILED"}

\* The completion validator ran in the last hook run and found the step invalid
ReportedInvalid ==
    /\ last.ran
    /\ "completion_validate" \in Range(last.calls)
    /\ ~last.completion.is_valid

\* The position of the first call of that name in the hook run, 0 if none
Position(calls, name) ==
    IF name \in Range(calls)
    THEN CHOOSE i \in DOMAIN calls :
            calls[i] = name /\ \A j \in DOMAIN calls : calls[j] = name => i <= j
    ELSE 0

\* The commit verifier would be consulted and does not verify the commit
CommitUnverified ==
    /\ last.inv.cwd # ""
    /\ last.inv.commit_verifier
    /\ ~last.inv.commit_verified

\* C1: the completion validator reports the step invalid and
\* stop_hook_active is true: the decision is allow with exit code 0, and
\* exactly one HOOK_SUBAGENT_STOP_FAILED event is emitted, carrying
\* allowed_despite_failure = true.
C1_RepeatAttemptAllowed ==
    (ReportedInvalid /\ last.inv.stop_hook_active) =>
        /\ last.decision.action = "allow"
        /\ last.decision.exit_code = 0
        /\ Cardinality(FailedEvents) = 1
        /\ \A i \in FailedEvents :
              /\ "allowed_despite_failure" \in audit_log[i].keys
              /\ audit_log[i].allowed_despite_failure

\* A repeat attempt on a trace whose step lacks a phase, after a block
C1_Witness ==
    /\ ReportedInvalid
    /\ last.inv.stop_hook_active
    /\ prev_blocked
    /\ last.completion.missing_phases # <<>>
    /\ raw_events # <<>>

\* C2 as stated: when the previous invocation returned block and this one
\* is made with stop_hook_active = true, this one does not return block.
C2_NeverBlocksTwice ==
    (last.ran /\ prev_blocked /\ last.inv.stop_hook_active) =>
        last.decision.action # "block"

\* C2 amended: when the previous invocation returned block and this one is
\* made with stop_hook_active = true, this one returns block only for a
\* trace-access or identity failure or for a valid step whose commit is not
\* verified, never for the completion validator's findings.
C2_RepeatBlocksOnlyOnAccessOrCommit ==
    ( /\ last.ran
      /\ prev_blocked
      /\ last.inv.stop_hook_active
      /\ last.decision.action = "block" ) =>
        \/ /\ last.inv.fault \in EarlyFaults
           /\ "completion_validate" \notin Range(last.calls)
        \/ /\ last.completion.is_valid
           /\ CommitUnverified

\* A second consecutive block, for an unverified commit
C2_Witness ==
    /\ last.ran
    /\ prev_blocked
    /\ last.inv.stop_hook_active
    /\ last.decision.action = "block"
    /\ last.decision.reason.kind = "COMMIT_NOT_VERIFIED"

\* C3 as stated: with a non-empty cwd, a configured commit verifier and a
\* commit that is not verified, the decision is block.
C3_UnverifiedCommitBlocks ==
    (last.ran /\ CommitUnverified) => last.decision.action = "block"

\* C3 amended: with a non-empty cwd, a configured commit verifier and a
\* commit that is not verified, a step that passes completion validation is
\* blocked, for both values of stop_hook_active; validate returns allow
\* there only on a repeat attempt for a step that fails completion
\* validation, without consulting the commit verifier.
C3_ValidStepUnverifiedCommitBlocks ==
    (last.ran /\ CommitUnverified) =>
        /\ last.completion.is_valid =>
              /\ last.decision.action = "block"
              /\ last.decision.exit_code = 2
              /\ last.decision.reason.kind = "COMMIT_NOT_VERIFIED"
              /\ last.decision.recovery_suggestions # <<>>
        /\ last.decision.action = "allow" =>
              /\ last.inv.stop_hook_active
              /\ ReportedInvalid
              /\ "verify_commit" \notin Range(last.calls)

\* A repeat attempt for a complete step whose commit is not verified
C3_Witness ==
    /\ last.ran
    /\ CommitUnverified
    /\ last.inv.stop_hook_active
    /\ last.completion.is_valid
    /\ "verify_commit" \in Range(last.calls)

\* C5: the completion validator reports the step invalid and
\* stop_hook_active is false: the decision is block with exit code 2, its
\* reason is built from the completion error messages, its recovery
\* suggestions are those of the CompletionResult, and exactly one
\* HOOK_SUBAGENT_STOP_FAILED event is emitted, without the
\* allowed_despite_failure flag.
C5_FirstAttemptBlocked ==
    (ReportedInvalid /\ ~last.inv.stop_hook_active) =>
        /\ last.decision.action = "block"
        /\ last.decision.exit_code = 2
        /\ last.decision.reason = Reason("completion", last.completion.error_messages)
        /\ last.completion.error_messages # <<>>
        /\ last.decision.recovery_suggestions = last.completion.recovery_suggestions
        /\ Cardinality(FailedEvents) = 1
        /\ \A i \in FailedEvents :
              /\ "allowed_despite_failure" \notin audit_log[i].keys
              /\ ~audit_log[i].allowed_despite_failure
              /\ audit_log[i].info = last.completion.error_messages

\* A first attempt on a trace with events of the step, one phase missing
C5_Witness ==
    /\ ReportedInvalid
    /\ ~last.inv.stop_hook_active
    /\ last.validated # <<>>
    /\ last.completion.missing_phases # <<>>

\* C6 as stated: a failing read_project_id, a different project id or a
\* failing read_step_events makes validate return block with a non-empty
\* recovery hint.
C6_AccessFailureBlocks ==
    (last.ran /\ last.inv.fault \in EarlyFaults \cup {"reread_failed"}) =>
        /\ last.decision.action = "block"
        /\ last.decision.recovery_suggestions # <<>>

\* C6 amended: a failing read_project_id, a different project id (None
\* included) or a failure of the first read_step_events call makes validate
\* return block with a non-empty recovery hint, for both values of
\* stop_hook_active, before anything else is called; a failure of the
\* second read_step_events call (the re-read after the integrity check) is
\* swallowed and the run goes on to completion validation.
C6_FirstReadFailureBlocks ==
    /\ (last.ran /\ last.inv.fault \in EarlyFaults) =>
          /\ last.decision.action = "block"
          /\ last.decision.exit_code = 2
          /\ last.decision.recovery_suggestions # <<>>
          /\ last.decision.reason.kind \in
                {"LOG_FILE_NOT_FOUND", "LOG_FILE_CORRUPTED",
                 "PROJECT_ID_MISMATCH", "READ_STEP_EVENTS_FAILED"}
          /\ audit_log = <<>>
    /\ (last.ran /\ last.inv.fault = "reread_failed" /\ ~last.raised) =>
          "completion_validate" \in Range(last.calls)

\* A repeat attempt on a trace that declares no project id
C6_Witness ==
    /\ last.ran
    /\ last.inv.fault = "no_project_id"
    /\ last.inv.stop_hook_active
    /\ last.decision.reason.kind = "PROJECT_ID_MISMATCH"
    /\ raw_events # <<>>

\* C7: the action validate returns is the action it returns for the same
\* inputs with no integrity validator configured.
C7_IntegrityNeverChangesAction ==
    last.ran => last.decision.action = last.shadow_action

\* C8 as stated: on every invocation that passes the identity check, the
\* integrity check runs before completion validation, and the events handed
\* to the completion validator are those of the persisted trace after the
\* corrections.
C8_IntegrityBeforeCompletion ==
    ( /\ last.ran
      /\ last.inv.fault \notin {"log_not_found", "log_corrupt",
                                "other_project", "no_project_id"} ) =>
        /\ Position(last.calls, "integrity_validate") > 0
        /\ Position(last.calls, "completion_validate")
              > Position(last.calls, "integrity_validate")
        /\ last.validated = parse_many(raw_events, STEP)

\* C8 amended: on every invocation in which completion validation runs, for
\* both values of stop_hook_active, the integrity check (when an integrity
\* validator is configured and read_all_events succeeds) and the timestamp
\* correction (when there is something to correct) have run before it, and
\* the events handed to the completion validator are those re-read from the
\* persisted trace after the corrections, or, when that re-read fails, the
\* events read before the integrity check.
C8_CompletionSeesRereadEvents ==
    (last.ran /\ "completion_validate" \in Range(last.calls)) =>
        /\ (last.inv.integrity_validator /\ last.inv.fault # "read_all_failed") =>
              /\ Position(last.calls, "integrity_validate") > 0
              /\ Position(last.calls, "integrity_validate")
                    < Position(last.calls, "completion_validate")
        /\ Position(last.calls, "correct_timestamps")
              < Position(last.calls, "completion_validate")
        /\ last.inv.fault # "reread_failed" =>
              last.validated = parse_many(raw_events, STEP)
        /\ last.inv.fault = "reread_failed" =>
              last.validated = last.first_read

\* A repeat attempt in which a timestamp of the step was corrected and the
\* corrected events were validated
C8_Witness ==
    /\ last.ran
    /\ last.inv.stop_hook_active
    /\ "correct_timestamps" \in Range(last.calls)
    /\ "completion_validate" \in Range(last.calls)
    /\ last.validated # last.first_read
    /\ last.validated = parse_many(raw_events, STEP)

------------------------------------------------------------------------\* The SCOPE_VIOLATION events of the run, in the order they were logged
ScopeViolations ==
    SelectSeq(audit_log, LAMBDA ev : ev.event_type = "SCOPE_VIOLATION")

\* C27: whatever the scope checker reports (no violation, out-of-scope
\* files, or a skipped check), a step whose completion is valid and whose
\* commit is verified, where a commit is verified at all, is allowed, and
\* the run logs exactly one SCOPE_VIOLATION event per out-of-scope file.
C27_ScopeCheckNeverBlocks ==
    (last.ran /\ last.completion.is_valid /\ ~CommitUnverified) =>
        /\ last.decision.action = "allow"
        /\ Len(ScopeViolations) = Len(last.inv.out_of_scope_files)
        /\ \A i \in DOMAIN ScopeViolations :
              ScopeViolations[i].info = <<last.inv.out_of_scope_files[i]>>

\* A first attempt of a complete, committed step with two files out of scope
C27_Witness ==
    /\ last.ran
    /\ ~last.inv.stop_hook_active
    /\ last.completion.is_valid
    /\ "verify_commit" \in Range(last.calls)
    /\ Len(last.inv.out_of_scope_files) = 2
    /\ Len(ScopeViolations) = 2
    /\ last.decision.action = "allow"

\* C28: handle_subagent_stop returns 2 when the service blocks the step, 0
\* when the service allows it or the agent is no DES agent, and 1 when an
\* error occurs (malformed input or an exception).
C28_SubagentStopExitCodes ==
    (last.ran /\ last.hook.handler = "subagent_stop") =>
        /\ (last.hook.input = "des_step" /\ last.decision.action = "block")
              => last.hook.exit_code = 2
        /\ (last.hook.input = "des_step" /\ last.decision.action = "allow")
              => last.hook.exit_code = 0
        /\ last.hook.input = "non_des_agent" => last.hook.exit_code = 0
        /\ (last.raised \/ last.hook.input \in {"json_parse_error",
                                                 "missing_fields"})
              => last.hook.exit_code = 1

\* C23: no exception escapes validate.  When the integrity validator
\* raises on the trace it is given, validate still returns a block decision
\* and records it in the audit log: it neither raises nor allows.
C23_RaisingCollaboratorBlocks ==
    ( /\ last.ran
      /\ "integrity_validate" \in Range(last.calls)
      /\ integrity_validate(STEP, parse_all(raw_events),
                            last.inv.task_start_time, NOW).raised )
    => /\ ~last.raised
       /\ last.decision.action = "block"
       /\ audit_log # <<>>

\* The stage of validate that made the i-th call of the run: 1 identity,
\* 2 event read, 3 integrity correction (with the re-read), 4 completion,
\* 5 commit, 6 scope
Stage(i) ==
    CASE last.calls[i] = "read_project_id" -> 1
      [] last.calls[i] = "read_step_events" -> IF i = 2 THEN 2 ELSE 3
      [] last.calls[i] \in {"read_all_events", "integrity_validate",
                            "correct_timestamps"} -> 3
      [] last.calls[i] = "completion_validate" -> 4
      [] last.calls[i] = "verify_commit" -> 5
      [] last.calls[i] = "check_scope" -> 6

\* The last call of the run
LastCall == last.calls[Len(last.calls)]

\* C32: the calls of validate follow the order identity, event read,
\* integrity correction, completion, commit, scope.  The commit verifier
\* is called only after the completion validator found the step valid; the
\* scope checker only after the commit was verified or its verification
\* was skipped (empty cwd or no verifier); and the stage that produces the
\* decision makes the last call of the run.
C32_StagesInOrder ==
    last.ran /\ last.hook.input = "des_step" =>
        /\ \A i, j \in DOMAIN last.calls : i < j => Stage(i) <= Stage(j)
        /\ \A i, j \in DOMAIN last.calls :
              (i < j /\ Stage(i) >= 4) => Stage(i) < Stage(j)
        /\ "verify_commit" \in Range(last.calls) =>
              /\ "completion_validate" \in Range(last.calls)
              /\ last.completion.is_valid
        /\ "check_scope" \in Range(last.calls) =>
              /\ last.completion.is_valid
              /\ ~CommitUnverified
              /\ "verify_commit" \in Range(last.calls)
                    <=> (last.inv.cwd # "" /\ last.inv.commit_verifier)
        /\ last.decision.action = "block" =>
              LastCall =
                  IF last.decision.reason.kind \in
                        {"LOG_FILE_NOT_FOUND", "LOG_FILE_CORRUPTED",
                         "PROJECT_ID_MISMATCH"}
                  THEN "read_project_id"
                  ELSE IF last.decision.reason.kind = "READ_STEP_EVENTS_FAILED"
                  THEN "read_step_events"
                  ELSE IF last.decision.reason.kind = "COMMIT_NOT_VERIFIED"
                  THEN "verify_commit"
                  ELSE "completion_validate"
        /\ (last.decision.action = "block"
              /\ LastCall \in {"read_project_id", "read_step_events"}) =>
              Len(last.calls) = Stage(Len(last.calls))
        /\ last.decision.action = "allow" =>
              LastCall = IF last.completion.is_valid
                         THEN "check_scope" ELSE "completion_validate"

\* A run that corrected a timestamp, found the step complete and blocked
\* on the unverified commit
C32_Witness ==
    /\ last.ran
    /\ last.calls = <<"read_project_id", "read_step_events",
                      "read_all_events", "integrity_validate",
                      "correct_timestamps", "read_step_events",
                      "completion_validate", "verify_commit">>
    /\ last.decision.action = "block"

\* The audit events of the run that record its outcome
TerminalEvents ==
    {i \in DOMAIN audit_log :
        audit_log[i].event_type \in {"HOOK_SUBAGENT_STOP_PASSED",
                                     "HOOK_SUBAGENT_STOP_FAILED",
                                     "COMMIT_NOT_VERIFIED"}}

\* C33: HOOK_SUBAGENT_STOP_PASSED is emitted only for a valid completion
\* whose commit verification did not fail; every run that gets past the
\* identity check and the event read emits exactly one of PASSED, FAILED
\* and COMMIT_NOT_VERIFIED; and every allow comes with a PASSED event or
\* with a FAILED event flagged allowed_despite_failure.
C33_TerminalEventMatchesDecision ==
    last.ran /\ last.hook.input = "des_step" =>
        /\ (\E i \in TerminalEvents :
                audit_log[i].event_type = "HOOK_SUBAGENT_STOP_PASSED") =>
              /\ last.completion.is_valid
              /\ ~CommitUnverified
        /\ Len(last.calls) > 2 => Cardinality(TerminalEvents) = 1
        /\ last.decision.action = "allow" =>
              \E i \in TerminalEvents :
                  \/ audit_log[i].event_type = "HOOK_SUBAGENT_STOP_PASSED"
                  \/ /\ audit_log[i].event_type = "HOOK_SUBAGENT_STOP_FAILED"
                     /\ "allowed_despite_failure" \in audit_log[i].keys
                     /\ audit_log[i].allowed_despite_failure

-----------------------------------------------------------------------------
(* Properties of the adapters' signal files (specifications SpecSG, SpecCP) *)

\* C31: during an active deliver session, a write to a protected path
\* (src/, tests/) outside the allowed orchestration paths is permitted
\* exactly when a DES-monitored subagent is running, that is when some DES
\* task was allowed by pre-tool-use and its own subagent-stop has not been
\* processed yet; also when several DES tasks overlap and one stops first.
C31_WritePermittedIffTaskRunning ==
    \A f \in WritePaths :
        ( /\ last.hook.handler = "pre_write"
          /\ last.hook.input = "write"
          /\ last.hook.context = f.path
          /\ session.deliver
          /\ f.has \cap {"src/", "tests/"} # {}
          /\ f.has \cap {"docs/feature/", ".nwave/", ".develop-progress"} = {} )
        => ((last.hook.response = "allow") <=> (session.running # {}))

\* C38: in the Copilot adapter every subagentStop of a DES task is
\* validated by the service against that task's own step, and only agents
\* for which no DES task was dispatched are approved without validation;
\* also when two DES tasks overlap and when a stop is repeated after a deny.
C38_StopValidatedAsOwnStep ==
    (last.ran /\ last.hook.handler = "subagent_stop") =>
        /\ last.stop.agent \in session.dispatched =>
              /\ last.hook.input = "signal"
              /\ last.stop.step_id = last.stop.agent
        /\ last.hook.input = "no_signal" =>
              last.stop.agent \notin session.dispatched

\* The data of the audit events of the given type in the last hook run
AuditData(event_type) ==
    LET evs == SelectSeq(audit_log, LAMBDA e : e.event_type = event_type)
    IN {evs[i].info[1] : i \in DOMAIN evs}

\* C39: handle_subagent_stop of the Claude Code adapter has removed the
\* step's namespaced signal file and the legacy singleton whatever the
\* decision is; and a stop that is retried after a block, with no
\* pre-tool-use in between, calls the service with an empty
\* task_start_time: no pre-task and no foreign-step warning, and every
\* corrected timestamp is `now` (interpolation from start = now).
C39_RetryHasNoTaskStart ==
    (last.ran /\ last.hook.handler = "subagent_stop"
              /\ last.hook.input = "des_step") =>
        /\ last.stop.step_id \notin session.namespaced
        /\ session.legacy = ""
        /\ last.stop.retry =>
              /\ last.inv.task_start_time = NoTime
              /\ \A w \in AuditData("LOG_INTEGRITY_WARNING") :
                    w.kind \notin {"pre_task", "foreign"}
              /\ \A c \in AuditData("LOG_INTEGRITY_CORRECTED") :
                    /\ c.reason = "future"
                    /\ c.corrected_timestamp = strftime(NOW.v)

\* A retried stop of a step whose trace holds an entry from before the task
\* and an entry of another step, and whose new COMMIT entry is corrected
C39_Witness ==
    /\ last.ran
    /\ last.hook.input = "des_step"
    /\ last.stop.retry
    /\ last.stop.step_id = STEP
    /\ AuditData("LOG_INTEGRITY_CORRECTED") # {}
    /\ \E i \in DOMAIN raw_events :
          raw_events[i].sid = STEP /\ raw_events[i].t = T_PRE
    /\ \E i \in DOMAIN raw_events : raw_events[i].sid = OTHER_STEP

-----------------------------------------------------------------------------
(* Properties of the parser (specification SpecPE)                         *)

\* The entry parse_auto was called on
LastEntry == raw_events[Len(raw_events)]

\* C24: a mapping with the five keys sid, p, s, d, t parses to a PhaseEvent
\* with exactly the mapped values, turns_used and tokens_used being the
\* values of tu and tk or None when the key is absent; a mapping that lacks
\* one of the five keys gives no event.
C24_StructuredEntryParsed ==
    (cv_pc = "parse_auto" /\ LastEntry.fmt = "dict") =>
        IF {"sid", "p", "s", "d", "t"} \subseteq LastEntry.keys
        THEN /\ Len(events) = 1
             /\ events[1].step_id = LastEntry.sid
             /\ events[1].phase_name = LastEntry.p
             /\ events[1].status = LastEntry.s
             /\ events[1].outcome = LastEntry.d
             /\ events[1].timestamp = LastEntry.t
             /\ events[1].turns_used.some = ("tu" \in LastEntry.keys)
             /\ events[1].tokens_used.some = ("tk" \in LastEntry.keys)
             /\ "tu" \in LastEntry.keys =>
                    /\ events[1].turns_used.int = LastEntry.tu.int
                    /\ events[1].turns_used.v = LastEntry.tu.v
             /\ "tk" \in LastEntry.keys =>
                    /\ events[1].tokens_used.int = LastEntry.tk.int
                    /\ events[1].tokens_used.v = LastEntry.tk.v
        ELSE events = <<>>

\* A mapping with the five keys and both stats keys has been parsed
C24_Witness ==
    /\ cv_pc = "parse_auto"
    /\ LastEntry.fmt = "dict"
    /\ {"sid", "p", "s", "d", "t", "tu", "tk"} \subseteq LastEntry.keys
    /\ Len(events) = 1
    /\ events[1].tokens_used.some

\* C25: a pipe string of fewer than 5 fields gives no event; one of 5 or
\* more fields gives the event of its first five fields; with 5 fields both
\* stats are None, with 7 fields whose last two are integers both stats
\* are those integers, and with 7 fields a stats field that is not an
\* integer is None in the event, which is still returned.
C25_PipeEntryParsed ==
    (cv_pc = "parse_auto" /\ LastEntry.fmt = "pipe") =>
        /\ LastEntry.nf < 5 => events = <<>>
        /\ LastEntry.nf >= 5 =>
              /\ Len(events) = 1
              /\ events[1].step_id = LastEntry.sid
              /\ events[1].phase_name = LastEntry.p
              /\ events[1].status = LastEntry.s
              /\ events[1].outcome = LastEntry.d
              /\ events[1].timestamp = LastEntry.t
              /\ LastEntry.nf = 5 =>
                    /\ ~events[1].turns_used.some
                    /\ ~events[1].tokens_used.some
              /\ (LastEntry.nf = 7 /\ LastEntry.tu.int /\ LastEntry.tk.int) =>
                    /\ events[1].turns_used = SomeStat(LastEntry.tu.v)
                    /\ events[1].tokens_used = SomeStat(LastEntry.tk.v)
              /\ (LastEntry.nf = 7 /\ ~LastEntry.tu.int) =>
                    ~events[1].turns_used.some
              /\ (LastEntry.nf = 7 /\ ~LastEntry.tk.int) =>
                    ~events[1].tokens_used.some

\* A 7-field string whose tokens field is not an integer has been parsed
C25_Witness ==
    /\ cv_pc = "parse_auto"
    /\ LastEntry.fmt = "pipe"
    /\ LastEntry.nf = 7
    /\ LastEntry.tu.int /\ ~LastEntry.tk.int
    /\ Len(events) = 1
    /\ ~events[1].tokens_used.some

\* The positions of the trace whose entry parses
ParsedPositions ==
    {i \in DOMAIN raw_events : parse_auto(raw_events[i]) # <<>>}

\* The j-th position of the trace whose entry parses
NthParsed(j) ==
    CHOOSE i \in ParsedPositions :
        Cardinality({k \in ParsedPositions : k <= i}) = j

\* C26: parse_all returns, for any list of entries, exactly the events of
\* the entries that parse, in the order of the list; parse_many(entries, s)
\* is parse_all(entries) restricted to the events whose step_id is s.
C26_BatchParsingTotalAndOrdered ==
    /\ cv_pc = "parse_all" =>
          /\ Len(events) = Cardinality(ParsedPositions)
          /\ \A j \in DOMAIN events :
                events[j] = parse_auto(raw_events[NthParsed(j)])[1]
    /\ cv_pc \in Range(StepIds) =>
          events = SelectSeq(parse_all(raw_events),
                             LAMBDA ev : ev.step_id = cv_pc)

\* parse_all went over a value that is no entry, between two entries of
\* different steps
C26_Witness ==
    /\ cv_pc = "parse_all"
    /\ Len(raw_events) = 3
    /\ raw_events[2].fmt = "other"
    /\ Len(events) = 2
    /\ events[1].step_id # events[2].step_id

-----------------------------------------------------------------------------
(* Properties of the PostToolUse hook (specification SpecPT)               *)

\* The lines of the audit log that record a sub-agent stop outcome
StopOutcomes ==
    {i \in DOMAIN audit_log :
        audit_log[i].event_type \in {"HOOK_SUBAGENT_STOP_PASSED",
                                     "HOOK_SUBAGENT_STOP_FAILED"}}

\* C29: for a task without DES markers (is_des_task = false)
\* check_completion_status returns None, whatever PASSED and FAILED
\* entries the audit log holds.
C29_NonDesTaskPassesThrough ==
    (last.ran /\ last.hook.input = "non_des_task") =>
        last.hook.context = "None"

\* The stop outcome with the greatest timestamp is a FAILED entry, newer
\* than every PASSED entry
FailedIsNewest ==
    \E i \in StopOutcomes :
        /\ audit_log[i].event_type = "HOOK_SUBAGENT_STOP_FAILED"
        /\ \A j \in StopOutcomes :
              audit_log[j].event_type = "HOOK_SUBAGENT_STOP_PASSED"
                  => audit_log[j].timestamp < audit_log[i].timestamp

\* The FAILED entry read_last_entry returns carries allowed_despite_failure
LastFailedWasAllowed ==
    \E i \in StopOutcomes :
        /\ audit_log[i].event_type = "HOOK_SUBAGENT_STOP_FAILED"
        /\ \A j \in StopOutcomes :
              audit_log[j].event_type = "HOOK_SUBAGENT_STOP_FAILED" => j <= i
        /\ "allowed_despite_failure" \in audit_log[i].keys
        /\ audit_log[i].allowed_despite_failure

\* handle_post_tool_use ran with hook input it could parse
PostToolUseRan ==
    /\ last.ran
    /\ last.hook.handler = "post_tool_use"
    /\ last.hook.input \in {"non_des_task", "des_task"}

-----------------------------------------------------------------------------
(* Properties of the orchestrator with a failing audit writer (SpecAW)     *)

\* C22: an audit_writer.log_event that raises, at whichever audit event of
\* validate, does not propagate and leaves the decision as it would have
\* been with a writer that logs: the run ends with the action of the same
\* run under a reliable writer.
C22_AuditFailureKeepsDecision ==
    last.ran => last.decision.action = last.shadow_action

-----
(* Properties of the integrity check and the timestamp corrector           *)
(* (specification SpecIC)                                                  *)

\* The run had a task_start_time that parses
KnownStart == integrity.task_start_time.k \in {"aware", "naive"}

\* The start of the interpolation window: the task start, or now without one
WindowStart == IF KnownStart THEN integrity.task_start_time.v ELSE NOW.v

\* The correctable entries the integrity validator handed to the corrector
Correctable == integrity.out.result.correctable_entries

\* The k-th correctable entry's raw position holds another entry than before
\* the run: the persisted trace was rewritten there
Rewritten(k) ==
    /\ Correctable[k].index + 1 \in DOMAIN raw_events
    /\ raw_events[Correctable[k].index + 1]
            # integrity.before[Correctable[k].index + 1]

\* The timestamp the persisted trace holds at the k-th entry's position
WrittenAt(k) == raw_events[Correctable[k].index + 1].t

\* The k-th of n instants spread evenly over (start, now), to the microsecond
EvenSpread(k, n, start, now) ==
    start + k * DivRound(now - start, n + 1)

\* C15 as stated: with a known task start, a single correctable entry is
\* written with exactly the midpoint of (task_start, now); several are
\* written with strictly increasing instants strictly inside (task_start, now).
C15_InterpolationExact ==
    (integrity.pc # "idle" /\ integrity.task_start_time = T_START) =>
        /\ Len(Correctable) = 1 =>
              (Rewritten(1) => 2 * WrittenAt(1).v = T_START.v + NOW.v)
        /\ Len(Correctable) > 1 =>
              /\ \A k \in DOMAIN Correctable :
                    Rewritten(k) => /\ WrittenAt(k).v > T_START.v
                                    /\ WrittenAt(k).v < NOW.v
              /\ \A j, k \in DOMAIN Correctable :
                    (j < k /\ Rewritten(j) /\ Rewritten(k))
                    => WrittenAt(j).v < WrittenAt(k).v

\* C15 amended: every timestamp written is the evenly spread instant (the
\* midpoint for one entry) cut down to the whole second; with a task start at
\* least N + 1 seconds before now the written instants are strictly
\* increasing in discovery order and strictly inside (task_start, now);
\* without a task start each written instant is now cut to the whole second.
C15_InterpolationToTheSecond ==
    integrity.pc # "idle" =>
        LET n == Len(Correctable)
            start == WindowStart
        IN /\ \A k \in DOMAIN Correctable :
                Rewritten(k) =>
                    /\ WrittenAt(k).k = "aware"
                    /\ WrittenAt(k).v % SECOND = 0
                    /\ WrittenAt(k).v <= EvenSpread(k, n, start, NOW.v)
                    /\ EvenSpread(k, n, start, NOW.v) < WrittenAt(k).v + SECOND
           /\ NOW.v - start >= (n + 1) * SECOND =>
                /\ \A k \in DOMAIN Correctable :
                      Rewritten(k) => /\ WrittenAt(k).v > start
                                      /\ WrittenAt(k).v < NOW.v
                /\ \A j, k \in DOMAIN Correctable :
                      (j < k /\ Rewritten(j) /\ Rewritten(k))
                      => WrittenAt(j).v < WrittenAt(k).v

\* Three correctable entries, all rewritten, with a task start whose
\* distance to now is not a whole number of seconds
C15_Witness ==
    /\ integrity.pc = "done"
    /\ integrity.task_start_time = T_START
    /\ Len(Correctable) = 3
    /\ \A k \in 1..3 : Rewritten(k)
    /\ (NOW.v - T_START.v) % SECOND # 0

\* The k-th correctable entry is one the corrector reports as corrected
\* (its index is in the returned set) in a run whose write-back succeeded
Corrected(k) ==
    /\ Correctable[k].index \in integrity.out.corrected
    /\ integrity.fault # "write_failed"

\* C16: after a correction pass that rewrote entries, validate run again on
\* the corrected trace with the same now and task_start_time reports none of
\* the corrected entries as correctable.
C16_CorrectedNotFlaggedAgain ==
    integrity.pc = "again" =>
        \A k \in DOMAIN Correctable :
            Corrected(k) =>
                \A j \in DOMAIN integrity.second.correctable_entries :
                    integrity.second.correctable_entries[j].index
                        # Correctable[k].index

\* Every raw entry of the trace before the run parses to an event, so the
\* positions of the parsed events are the positions of the raw entries
WellFormedTrace ==
    \A i \in DOMAIN integrity.before : parse_auto(integrity.before[i]) # <<>>

\* C17: after the corrector ran with its reads and its write succeeding, the
\* raw entry at the index of every correctable entry carries the interpolated
\* timestamp (to the second) in place of the original, whether the raw entry
\* is a pipe-delimited string or a structured mapping.
C17_CorrectedInEitherFormat ==
    ( /\ integrity.pc # "idle"
      /\ integrity.fault = "none"
      /\ WellFormedTrace ) =>
        \A k \in DOMAIN Correctable :
            LET spread == EvenSpread(k, Len(Correctable), WindowStart, NOW.v)
            IN /\ WrittenAt(k) # Correctable[k].original_timestamp
               /\ WrittenAt(k).v <= spread
               /\ spread < WrittenAt(k).v + SECOND

\* The warnings the integrity validator returned in the run
Warnings == integrity.out.result.warnings

\* The warning came with a correctable entry: a future timestamp, or one
\* more than the tolerance before the task start
FlagsEntry(w) ==
    \/ w.kind = "future"
    \/ /\ w.kind = "pre_task"
       /\ w.ts.v < integrity.task_start_time.v - _TOLERANCE

\* The position in Correctable of the entry the j-th warning came with:
\* warnings and correctable entries are produced in the same trace order
EntryOf(j) == Cardinality({i \in 1..j : FlagsEntry(Warnings[i])})

\* The warnings that do not belong to an entry rewritten in the persisted
\* trace, in the order the validator returned them
RECURSIVE Outstanding(_)
Outstanding(j) ==
    IF j > Len(Warnings) THEN <<>>
    ELSE (IF FlagsEntry(Warnings[j]) /\ Rewritten(EntryOf(j))
          THEN <<>> ELSE <<Warnings[j]>>)
         \o Outstanding(j + 1)

\* The warnings of the LOG_INTEGRITY_WARNING events of the run, in order
EmittedWarnings ==
    LET evs == SelectSeq(audit_log,
                   LAMBDA e : e.event_type = "LOG_INTEGRITY_WARNING")
    IN [i \in DOMAIN evs |-> evs[i].info[1]]

\* C18: on a well-formed trace, with the reads and the write succeeding, the
\* LOG_INTEGRITY_WARNING events are exactly the warnings that do not belong
\* to a corrected entry: none for a corrected entry, one for every warning of
\* a flagged entry left uncorrected and for every phase-name, foreign-step
\* and within-tolerance warning, also when a corrected and an uncorrected
\* entry have the same phase name and original timestamp.
C18_WarningsOfUncorrectedEmitted ==
    ( /\ integrity.pc = "done"
      /\ integrity.fault = "none"
      /\ WellFormedTrace ) =>
        EmittedWarnings = Outstanding(1)

\* The data of the LOG_INTEGRITY_CORRECTED events of the run, in order
CorrectedRecords ==
    LET evs == SelectSeq(audit_log,
                   LAMBDA e : e.event_type = "LOG_INTEGRITY_CORRECTED")
    IN [i \in DOMAIN evs |-> evs[i].info[1]]

\* One record (phase, original timestamp, corrected timestamp, reason) for
\* each correctable entry rewritten in the persisted trace, in discovery order
RECURSIVE RecordsOfRewritten(_)
RecordsOfRewritten(k) ==
    IF k > Len(Correctable) THEN <<>>
    ELSE (IF Rewritten(k)
          THEN << [phase |-> Correctable[k].phase_name,
                   original_timestamp |-> Correctable[k].original_timestamp,
                   corrected_timestamp |-> WrittenAt(k),
                   reason |-> Correctable[k].reason] >>
          ELSE <<>>)
         \o RecordsOfRewritten(k + 1)

\* C19: on a well-formed trace, a LOG_INTEGRITY_CORRECTED record is emitted
\* for an entry if and only if its timestamp was replaced in the persisted
\* trace: exactly one record per entry rewritten, none when the write-back
\* of the trace fails.
C19_CorrectedRecordIffPersisted ==
    (integrity.pc = "done" /\ WellFormedTrace) =>
        CorrectedRecords = RecordsOfRewritten(1)

\* The events the integrity validator was given in the run
Validated == parse_all(integrity.before)

\* "future", "pre_task", "skew" (before the task start, within the 60 s
\* tolerance) or "plausible": where the claim puts the i-th validated event
Plausibility(i) ==
    LET t == Validated[i].timestamp
        start == integrity.task_start_time
    IN IF Validated[i].step_id # STEP \/ t.k \notin {"aware", "naive"}
       THEN "plausible"
       ELSE IF t.v > NOW.v THEN "future"
       ELSE IF ~KnownStart THEN "plausible"
       ELSE IF t.v < start.v - 60 * SECOND THEN "pre_task"
       ELSE IF t.v < start.v THEN "skew"
       ELSE "plausible"

\* The timestamp warnings the claim expects, in trace order
RECURSIVE ExpectedWarnings(_)
ExpectedWarnings(i) ==
    IF i > Len(Validated) THEN <<>>
    ELSE (IF Plausibility(i) = "plausible" THEN <<>>
          ELSE << [kind |-> IF Plausibility(i) = "future"
                            THEN "future" ELSE "pre_task",
                   name |-> Validated[i].phase_name,
                   ts |-> Validated[i].timestamp,
                   hint |-> <<>>] >>)
         \o ExpectedWarnings(i + 1)

\* The correctable entries the claim expects, in trace order
RECURSIVE ExpectedCorrectable(_)
ExpectedCorrectable(i) ==
    IF i > Len(Validated) THEN <<>>
    ELSE (IF Plausibility(i) \in {"future", "pre_task"}
          THEN << [index |-> i - 1, step_id |-> STEP,
                   phase_name |-> Validated[i].phase_name,
                   original_timestamp |-> Validated[i].timestamp,
                   reason |-> Plausibility(i)] >>
          ELSE <<>>)
         \o ExpectedCorrectable(i + 1)

\* C20: the integrity validator returns, for each event of the target step
\* with a parseable timestamp t: one warning and one correctable entry
\* (future) when t > now; otherwise, with a known task start, one warning
\* and one correctable entry (pre_task) when t < start - 60 s, and one
\* warning and no correctable entry when start - 60 s <= t < start; nothing
\* in every other case, for other steps and for unparseable timestamps.
C20_TimestampPartition ==
    (integrity.pc = "done" /\ integrity.fault # "read_all_failed") =>
        /\ ~integrity.out.raised
        /\ SelectSeq(Warnings, LAMBDA w : w.kind \in {"future", "pre_task"})
               = ExpectedWarnings(1)
        /\ Correctable = ExpectedCorrectable(1)

\* The step ids other than the target with an event timestamped at or after
\* the task start
ContaminatingSteps ==
    {Validated[i].step_id : i \in
        {j \in DOMAIN Validated :
            /\ Validated[j].step_id # STEP
            /\ Validated[j].timestamp.k \in {"aware", "naive"}
            /\ Validated[j].timestamp.v >= integrity.task_start_time.v}}

\* The foreign-step warnings the integrity validator returned
ForeignStepWarnings == SelectSeq(Warnings, LAMBDA w : w.kind = "foreign")

\* C21: the integrity validator returns, when task_start_time is known,
\* exactly one foreign-step warning for each distinct step id other than the
\* target that has an event timestamped at or after task_start_time and none
\* for other step ids; when task_start_time is unknown or unparseable it
\* returns no foreign-step warning.
C21_OneWarningPerForeignStep ==
    (integrity.pc = "done" /\ integrity.fault # "read_all_failed") =>
        /\ ~integrity.out.raised
        /\ IF KnownStart
           THEN /\ {ForeignStepWarnings[i].name :
                        i \in DOMAIN ForeignStepWarnings} = ContaminatingSteps
                /\ Len(ForeignStepWarnings) = Cardinality(ContaminatingSteps)
           ELSE ForeignStepWarnings = <<>>


\* The position, in the trace before the run, of the raw entry the k-th
\* correctable entry's event was parsed from: parse_all keeps the order and
\* drops the entries that do not parse
SourcePosition(k) ==
    LET parsed == {i \in DOMAIN integrity.before :
                      parse_auto(integrity.before[i]) # <<>>}
    IN CHOOSE i \in parsed :
          Cardinality({j \in parsed : j <= i}) = Correctable[k].index + 1

C35_OtherStepsUntouched ==
    integrity.pc = "done" =>
        /\ Len(raw_events) = Len(integrity.before)
        /\ \A i \in DOMAIN integrity.before :
              integrity.before[i].sid # STEP =>
                  raw_events[i] = integrity.before[i]

\* The corrector read the raw trace and went through the correctable entries
CorrectionPass ==
    /\ integrity.pc = "done"
    /\ Correctable # <<>>
    /\ integrity.fault \in {"none", "write_failed"}

\* The raw entry at the k-th correctable entry's index is missing or does
\* not contain the entry's original timestamp
Missed(k) ==
    ~ /\ Correctable[k].index + 1 \in DOMAIN integrity.before
      /\ ContainsTimestamp(integrity.before[Correctable[k].index + 1],
                           Correctable[k].original_timestamp)

\* The interpolation slot of the k-th correctable entry, as it is written
Slot(k) ==
    strftime(EvenSpread(k, Len(Correctable), WindowStart, NOW.v))

\* The correctable entries that are not missed, by position in the list
HitPositions ==
    SelectSeq([k \in DOMAIN Correctable |-> k], LAMBDA k : ~Missed(k))

\* C36: correction is best-effort per entry. A correctable entry whose raw
\* entry is missing or lacks the original timestamp is left unchanged, has
\* no LOG_INTEGRITY_CORRECTED record and is not in the returned set; every
\* other correctable entry of the pass is in the returned set, has its
\* record, and (the write-back succeeding) carries the interpolation slot of
\* its position in the correctable list.
C36_BestEffortPerEntry ==
    CorrectionPass =>
        /\ \A k \in DOMAIN Correctable :
              IF Missed(k)
              THEN /\ Correctable[k].index \notin integrity.out.corrected
                   /\ Correctable[k].index + 1 \in DOMAIN integrity.before =>
                         raw_events[Correctable[k].index + 1]
                             = integrity.before[Correctable[k].index + 1]
              ELSE /\ Correctable[k].index \in integrity.out.corrected
                   /\ integrity.fault = "none" =>
                         raw_events[Correctable[k].index + 1]
                             = [integrity.before[Correctable[k].index + 1]
                                   EXCEPT !.t = Slot(k)]
        /\ CorrectedRecords =
              [n \in DOMAIN HitPositions |->
                  [phase |-> Correctable[HitPositions[n]].phase_name,
                   original_timestamp |->
                       Correctable[HitPositions[n]].original_timestamp,
                   corrected_timestamp |-> Slot(HitPositions[n]),
                   reason |-> Correctable[HitPositions[n]].reason]]

\* A pass in which the first correctable entry is missed and the second is
\* corrected with the second slot
C36_Witness ==
    /\ CorrectionPass
    /\ integrity.fault = "none"
    /\ Len(Correctable) = 2
    /\ Missed(1)
    /\ Rewritten(2)
    /\ WrittenAt(2) = Slot(2)
    /\ Len(CorrectedRecords) = 1

\* C37: timestamp correction changes nothing but the flagged timestamps.
\* The trace keeps its length and order, the raw entries no flagged event
\* was parsed from are unchanged, every entry keeps everything but its
\* timestamp, and when nothing is correctable the corrector is not called
\* and the persisted trace is left as it was.
C37_OnlyFlaggedTimestampsChange ==
    integrity.pc = "done" =>
        /\ Len(raw_events) = Len(integrity.before)
        /\ \A i \in DOMAIN integrity.before :
              /\ raw_events[i]
                    = [integrity.before[i] EXCEPT !.t = raw_events[i].t]
              /\ (\A k \in DOMAIN Correctable : SourcePosition(k) # i) =>
                    raw_events[i] = integrity.before[i]
        /\ Correctable = <<>> =>
              /\ "correct_timestamps" \notin Range(integrity.out.calls)
              /\ raw_events = integrity.before

=============================================================================
